---- MODULE Spec2Model ----
(***************************************************************************)
(* The step-resolution engine of the 30-step challenge agent:               *)
(*   agent/extractors.py  is_valid_step_code (the code validator)           *)
(*   agent/runner.py      run_step, solve_one_step, run_challenge           *)
(*                                                                          *)
(* Strings are sequences of one-character strings, so that length, suffix   *)
(* and case-insensitive tests are computed and not assumed.  Python's None  *)
(* for an optional string is the one-element sequence None (its element is  *)
(* no character); None for an optional step number is NoStep (page step     *)
(* numbers are parsed from \d+ and are never negative).                     *)
(***************************************************************************)
EXTENDS Integers, Sequences, FiniteSets, TLC

VARIABLES
    \* ---- run_step's selection on its own (specification SpecArbiter) ----
    a_storage,      \* raw value of localStorage["challenge_code_step_N"]
    a_table,        \* storage_codes.get(step) when the fast path applies
    a_network,      \* network_cache.get(step)
    a_input,        \* what extract_code_from_input_value returned
    a_dom,          \* what extract_codes_from_dom returned
    a_learned,      \* learned_method argument of run_step
    a_result,       \* [ok, method, notes, code_used] returned by run_step
    a_again,        \* what the second extraction of run_step read
    a_done,         \* run_step has returned
    \* ---- run_challenge (specification Spec) ----
    pc,                 \* position in run_challenge's stage loop
    continue_on_error,  \* run_challenge parameter
    use_llm,            \* use_llm and openai_api_key
    learned,            \* load_learned's map, stage -> source (NoMethod: no entry)
    expected_step,
    attempted,
    solved,
    step_results,       \* the ledger: sequence of StepResult
    llm_calls_used,
    page_step,          \* the page's step read at the top of the attempt
    sol,                \* (ok, method, notes, code_used) of lines 516 / 537
    sol_retry,          \* (ok_retry, method_retry, notes_retry, code_retry) of line 599
    solved_step,
    s_final,
    poll,               \* polls made so far in the current polling loop
    site,               \* which solve_one_step call is running: main, llm, retry
    attempt,            \* solve_one_step's loop index
    last_code,          \* solve_one_step's last_code
    \* ---- history variables (not program state) ----
    handed,             \* codes passed to find_and_fill_code_input so far
    dispatched,         \* submissions dispatched in the current stage attempt
    re_resolutions,     \* early-stage re-resolutions in the current stage attempt
    attempt_stage,      \* stage the current (or last) stage attempt was made for
    llm_invocations,    \* calls of ask_llm_for_plan made so far in the run
    outcome,            \* how the stage attempt that just finished ended, and for an
                        \* advance seen by the first polling loop after how many polls
    \* ---- the learning store across runs (specification SpecStore) ----
    st_pc,              \* position of the current run: idle, loop, the steps of
                        \* save_learned, returned, propagated, killed
    st_shared,          \* content of <shared_dir>/learned.json
    st_local,           \* content of <out_dir>/learned.json (the run folder)
    st_cwd,             \* content of ./learned.json (save_learned loads with out_dir ".")
    st_learned,         \* what load_learned returned at the start of the run
    st_ledger,          \* step_results when the stage loop was left
    st_mps,             \* save_learned's method_per_step
    st_merged,          \* save_learned's merged
    st_runs,            \* runs started so far
    st_shared_before,   \* history: content of the shared file when save_learned began
    \* ---- the challenge site of the end-to-end scenario (specification SpecHappy) ----
    hp_stage,           \* the stage the page is on
    \* ---- is_valid_step_code on its own (specification SpecValidator) ----
    v_input,            \* the candidate string
    v_result,           \* what is_valid_step_code returned
    v_done,             \* is_valid_step_code has returned
    \* ---- the network cache, its listener and run_step's probes (SpecProbes) ----
    network_cache,      \* run_challenge's network_cache: stage -> code
    nc_pc,              \* run_challenge around lines 428-430: created, cleared, installed
    rs_pc,              \* run_step around lines 197-201: idle (elsewhere), launch_dom,
                        \* await_storage, await_dom, read_network
    rs_step,            \* run_step's step argument
    t_storage,          \* the task of _try_storage: none, scheduled, done
    t_dom,              \* the task of _try_dom: none, scheduled, done
    rs_codes,           \* _try_network_sync's codes, the copy of the cache
    network_result,     \* the code of network_result (line 201)
    rs_calls,           \* run_step calls that made their network read
    rs_cache_at_launch, \* history: the cache when both tasks had been created
    rs_done_at_read,    \* history: the probes that were complete at the network read
    \* ---- the external planner's proposal (specification SpecPlan) ----
    p_raw,              \* the planner's reply as json.loads sees it
    p_plan,             \* what parse_action_plan returned
    p_pc,               \* ask, execute, done, raised
    p_i,                \* execute_action_plan's position in the plan
    p_log,              \* history: the actions execute_action_plan performed, in order
    \* ---- the storage probe and the bulk table (specification SpecStorageProbe) ----
    storage_codes,      \* the table extract_codes_from_storage returned at run start
    use_fast_path,      \* runner.py 453
    local_storage,      \* the page's challenge_code_step_N entries, by stage
    sp_step,            \* the stage of the last _try_storage call
    sp_read,            \* history: the raw entry that call read
    sp_result,          \* what that call returned
    sp_calls,           \* number of _try_storage calls so far
    sp_table_at_start,  \* history: the table as it was at run start
    \* ---- one find_and_fill_code_input call (specification SpecFill) ----
    f_inputs,           \* per code-input selector: does its locator find an element
    f_section,          \* the text of the button in the code-entry section, or None
    f_controls,         \* the page's submit controls in document order
    f_pc,               \* input, section, enter, fallback, returned
    f_sel,              \* position in CODE_INPUT_SELECTORS
    f_btn,              \* position in SUBMIT_BUTTON_SELECTORS
    f_ret,              \* the value returned
    f_filled,           \* history: an input was filled with the code
    f_entered,          \* history: Enter was pressed after a fill
    f_clicked,          \* history: the controls clicked
    \* ---- one _parse_json_for_codes call (specification SpecScan) ----
    j_levels,           \* the JSON value: the containers nested from the root inwards
    j_deepest,          \* the deepest nesting level whose content scan examined
    j_result,           \* the stage -> code map collected
    j_done,
    \* ---- two runs saving to one shared store (specification SpecSavers) ----
    w_shared,           \* the shared store's learned.json
    w_pc,               \* per run: save_learned's position
    w_merged,           \* per run: its local merged
    w_ledger            \* per run: its step_results

arb_vars == <<a_storage, a_table, a_network, a_input, a_dom, a_learned, a_result, a_again,
              a_done>>

run_vars == <<pc, continue_on_error, use_llm, learned, expected_step, attempted, solved,
              step_results, llm_calls_used, page_step, sol, sol_retry, solved_step, s_final,
              poll, site, attempt, last_code, handed, dispatched, re_resolutions,
              attempt_stage, llm_invocations, outcome>>

store_vars == <<st_pc, st_shared, st_local, st_cwd, st_learned, st_ledger, st_mps,
                st_merged, st_runs, st_shared_before>>

happy_vars == <<hp_stage>>

\* the variables of the smaller specifications, which the three above leave alone
val_vars == <<v_input, v_result, v_done>>

probe_vars == <<network_cache, nc_pc, rs_pc, rs_step, t_storage, t_dom, rs_codes,
                network_result, rs_calls, rs_cache_at_launch, rs_done_at_read>>

plan_vars == <<p_raw, p_plan, p_pc, p_i, p_log>>

sprobe_vars == <<storage_codes, use_fast_path, local_storage, sp_step, sp_read, sp_result,
                 sp_calls, sp_table_at_start>>

fill_vars == <<f_inputs, f_section, f_controls, f_pc, f_sel, f_btn, f_ret, f_filled,
               f_entered, f_clicked>>

scan_vars == <<j_levels, j_deepest, j_result, j_done>>

savers_vars == <<w_shared, w_pc, w_merged, w_ledger>>

ext_vars == <<sprobe_vars, fill_vars, scan_vars, savers_vars>>

aux_vars == <<happy_vars, val_vars, probe_vars, plan_vars, ext_vars>>

vars == <<arb_vars, run_vars, store_vars, aux_vars>>

-----------------------------------------------------------------------------
(* Values *)

None == <<"<None>">>
NoMethod == "none"
NoStep == 0 - 1

Truthy(s) == s # None /\ s # << >>

Str_ABC123 == <<"A","B","C","1","2","3">>
Str_XYZ999 == <<"X","Y","Z","9","9","9">>
Str_Proceed == <<"P","r","o","c","e","e","d">>
Str_ACCESS == <<"A","C","C","E","S","S">>
Str_123456 == <<"1","2","3","4","5","6">>
Str_AB12 == <<"A","B","1","2">>
Str_padded == <<" ","A","B","1","2","X"," ">>

Sources == {"localStorage", "network", "dom"}

-----------------------------------------------------------------------------
(* agent/extractors.py: the code validator *)

Digits == {"0","1","2","3","4","5","6","7","8","9"}
Whitespace == {" ", "\t", "\n", "\r"}

Lower(c) ==
    CASE c = "A" -> "a" [] c = "B" -> "b" [] c = "C" -> "c" [] c = "D" -> "d"
      [] c = "E" -> "e" [] c = "F" -> "f" [] c = "G" -> "g" [] c = "H" -> "h"
      [] c = "I" -> "i" [] c = "J" -> "j" [] c = "K" -> "k" [] c = "L" -> "l"
      [] c = "M" -> "m" [] c = "N" -> "n" [] c = "O" -> "o" [] c = "P" -> "p"
      [] c = "Q" -> "q" [] c = "R" -> "r" [] c = "S" -> "s" [] c = "T" -> "t"
      [] c = "U" -> "u" [] c = "V" -> "v" [] c = "W" -> "w" [] c = "X" -> "x"
      [] c = "Y" -> "y" [] c = "Z" -> "z"
      [] OTHER -> c

LowerStr(s) == [i \in 1..Len(s) |-> Lower(s[i])]

RECURSIVE LStrip(_)
LStrip(s) == IF s # << >> /\ Head(s) \in Whitespace THEN LStrip(Tail(s)) ELSE s

RECURSIVE RStrip(_)
RStrip(s) ==
    IF s # << >> /\ s[Len(s)] \in Whitespace THEN RStrip(SubSeq(s, 1, Len(s) - 1)) ELSE s

\* str.strip()
Strip(s) == RStrip(LStrip(s))

EndsWith(s, suf) ==
    /\ Len(s) >= Len(suf)
    /\ SubSeq(s, Len(s) - Len(suf) + 1, Len(s)) = suf

\* number of trailing digits of s
RECURSIVE TrailingDigits(_)
TrailingDigits(s) ==
    IF s # << >> /\ s[Len(s)] \in Digits
    THEN 1 + TrailingDigits(SubSeq(s, 1, Len(s) - 1))
    ELSE 0

\* Variant: the pattern compiled without re.I
UNIT_LIKE_SUFFIX_case_sensitive(token) ==
    LET n == Len(token)
        k == TrailingDigits(token)
    IN  \/ EndsWith(token, <<"p","x">>)
        \/ EndsWith(token, <<"e","m">>)
        \/ EndsWith(token, <<"m","s">>)
        \/ EndsWith(token, <<"s">>)
        \/ (n >= 2 /\ token[n] \in Digits /\ token[n - 1] = "s")
        \/ (n > k /\ token[n - k] = "%")

\* UNIT_LIKE_SUFFIX = (?:px|em|rem|ms|s\d?|%\d*)$ with re.I, used with search()
UNIT_LIKE_SUFFIX(token) ==
    LET t == LowerStr(token)
        n == Len(t)
        k == TrailingDigits(t)
    IN  \/ EndsWith(t, <<"p","x">>)
        \/ EndsWith(t, <<"e","m">>)
        \/ EndsWith(t, <<"r","e","m">>)
        \/ EndsWith(t, <<"m","s">>)
        \/ EndsWith(t, <<"s">>)
        \/ (n >= 2 /\ t[n] \in Digits /\ t[n - 1] = "s")
        \/ (n > k /\ t[n - k] = "%")

\* MOSTLY_DIGITS = ^\d{2,}$
MOSTLY_DIGITS(token) == Len(token) >= 2 /\ \A i \in 1..Len(token) : token[i] \in Digits

\* The alternatives of DECOY_WORDS, lower-cased (the pattern is compiled with re.I)
DecoyVocabulary == {
    <<"p","r","o","c","e","e","d">>, <<"c","o","n","t","i","n","u","e">>,
    <<"a","d","v","a","n","c","e">>, <<"f","o","r","w","a","r","d">>,
    <<"r","e","a","d","i","n","g">>, <<"s","e","c","t","i","o","n">>,
    <<"c","h","a","l","l","e","n","g","e">>, <<"b","r","o","w","s","e","r">>,
    <<"n","a","v","i","g","a","t","i","o","n">>, <<"h","i","d","d","e","n">>,
    <<"c","o","m","p","l","e","t","e">>, <<"c","l","i","c","k">>, <<"r","e","v","e","a","l">>,
    <<"s","u","b","m","i","t">>, <<"e","n","t","e","r">>, <<"n","e","x","t">>, <<"m","o","v","e">>,
    <<"g","o","i","n","g">>, <<"j","o","u","r","n","e","y">>, <<"p","a","g","e">>,
    <<"s","t","e","p">>, <<"c","o","n","t","e","n","t">>, <<"b","l","o","c","k">>,
    <<"l","o","a","d","e","d">>, <<"a","u","t","o","m","a","t","i","o","n">>,
    <<"u","l","t","i","m","a","t","e">>, <<"t","e","s","t">>, <<"i","n","s","p","e","c","t">>,
    <<"e","l","e","m","e","n","t">>, <<"a","t","t","r","i","b","u","t","e","s">>,
    <<"l","a","b","e","l","s">>, <<"t","a","g","s">>, <<"s","o","m","e","w","h","e","r","e">>,
    <<"h","i","n","t">>, <<"c","h","e","c","k">>, <<"r","e","q","u","i","r","e","d">>,
    <<"o","p","t","i","o","n","a","l">>, <<"c","h","a","r","a","c","t","e","r">>,
    <<"f","i","l","l","e","r">>, <<"k","e","e","p">>, <<"s","c","r","o","l","l","i","n","g">>,
    <<"f","i","n","d">>, <<"b","u","t","t","o","n">>, <<"c","h","o","o","s","e">>,
    <<"o","p","t","i","o","n">>, <<"w","r","o","n","g">>, <<"c","o","r","r","e","c","t">>,
    <<"c","h","o","i","c","e">>, <<"p","i","c","k">>, <<"s","e","l","e","c","t">>,
    <<"y","o","u","r">>, <<"t","h","i","s">>, <<"t","h","a","t">>, <<"t","h","e">>, <<"a","n","d">>,
    <<"f","o","r">>, <<"w","i","t","h">>, <<"f","r","o","m">>, <<"h","a","v","e">>,
    <<"w","i","l","l">>, <<"w","o","u","l","d">>, <<"s","c","r","o","l","l">>,
    <<"a","p","p","e","a","r","e","d">>, <<"r","e","v","e","a","l","e","d">>,
    <<"c","l","i","c","k","e","d">>, <<"f","a","i","l","e","d">>, <<"p","a","s","s","e","d">>,
    <<"b","e","f","o","r","e">>, <<"a","f","t","e","r">>, <<"i","n","s","i","d","e">>,
    <<"o","u","t","s","i","d","e">>, <<"w","i","t","h","i","n">>, <<"w","i","t","h","o","u","t">>,
    <<"b","e","l","o","w">>, <<"a","b","o","v","e">>, <<"b","e","t","w","e","e","n">>,
    <<"d","u","r","i","n","g">>, <<"n","u","m","b","e","r">>, <<"s","t","r","i","n","g">>,
    <<"s","o","u","r","c","e">>, <<"t","a","r","g","e","t">>, <<"w","i","n","d","o","w">>,
    <<"s","c","r","e","e","n">>, <<"p","a","r","e","n","t">>, <<"c","h","i","l","d">>,
    <<"s","i","b","l","i","n","g">>, <<"l","e","n","g","t","h">>, <<"h","e","i","g","h","t">>,
    <<"w","i","d","t","h">>, <<"s","u","b","s","c","r","i","b","e">>,
    <<"n","e","w","s","l","e","t","t","e","r">>, <<"i","m","p","o","r","t","a","n","t">>,
    <<"m","e","s","s","a","g","e">>, <<"p","o","p","u","p">>, <<"m","o","d","a","l">>,
    <<"o","v","e","r","l","a","y">>, <<"d","i","a","l","o","g">>, <<"a","n","o","t","h","e","r">>,
    <<"v","i","s","i","b","l","e">>, <<"d","i","s","p","l","a","y">>,
    <<"s","h","o","w","i","n","g">>, <<"w","a","i","t","i","n","g">>,
    <<"l","o","o","k","i","n","g">>, <<"s","e","a","r","c","h","i","n","g">>,
    <<"d","i","s","m","i","s","s">>, <<"a","c","c","e","p","t">>, <<"c","o","o","k","i","e">>,
    <<"c","o","n","s","e","n","t">>, <<"p","r","i","v","a","c","y">>, <<"t","e","r","m","s">>,
    <<"p","o","l","i","c","y">>, <<"w","e","l","c","o","m","e">>, <<"h","e","l","l","o">>,
    <<"t","h","a","n","k","s">>, <<"t","h","a","n","k">>, <<"p","l","e","a","s","e">>,
    <<"s","o","r","r","y">>, <<"e","r","r","o","r">>, <<"w","a","r","n","i","n","g">>,
    <<"s","u","c","c","e","s","s">>, <<"d","o","w","n","l","o","a","d">>,
    <<"u","p","l","o","a","d">>, <<"s","h","a","r","e">>, <<"f","o","l","l","o","w">>,
    <<"l","i","k","e">>, <<"c","o","m","m","e","n","t">>, <<"s","o","c","i","a","l">>,
    <<"e","m","a","i","l">>, <<"a","l","r","e","a","d","y">>, <<"m","e","m","b","e","r">>,
    <<"a","c","c","o","u","n","t">>, <<"l","o","g","i","n">>, <<"s","i","g","n","u","p">>,
    <<"r","e","g","i","s","t","e","r">>, <<"p","a","s","s","w","o","r","d">>,
    <<"u","s","e","r","n","a","m","e">>
}

\* DECOY_WORDS = ^(...)$ with re.I, used with match()
DECOY_WORDS(token) == LowerStr(token) \in DecoyVocabulary

MinCodeLen == 6

\* _is_unit_like_or_decoy
is_unit_like_or_decoy(token) ==
    IF token = << >> \/ Len(token) < MinCodeLen THEN TRUE
    ELSE IF UNIT_LIKE_SUFFIX(token) \/ MOSTLY_DIGITS(token) THEN TRUE
    ELSE IF DECOY_WORDS(token) THEN TRUE
    ELSE FALSE

is_valid_step_code(code) ==
    IF ~Truthy(code) THEN FALSE
    ELSE ~is_unit_like_or_decoy(Strip(code))

-----------------------------------------------------------------------------
(* agent/runner.py: the three probes as run_step sees them *)

MinStoredLen == 4
MaxStoredLen == 64

\* get_challenge_code_for_step_from_storage: v is the raw localStorage value
get_challenge_code_for_step_from_storage(v) ==
    IF Truthy(v) /\ MinStoredLen <= Len(Strip(v)) /\ Len(Strip(v)) <= MaxStoredLen
    THEN Strip(v)
    ELSE None

\* Variant: the table's entry is preferred to the stage-keyed entry
try_storage_prefers_table(v, table_entry) ==
    IF table_entry # None THEN table_entry
    ELSE get_challenge_code_for_step_from_storage(v)

\* Variant: only the table of extract_codes_from_storage is consulted
try_storage_table_only(v, table_entry) == table_entry

\* _try_storage: table_entry is storage_codes.get(step) when use_fast_path and
\* storage_codes and step in storage_codes, and None otherwise
try_storage(v, table_entry) ==
    LET code == get_challenge_code_for_step_from_storage(v)
    IN  IF Truthy(code) THEN code
        ELSE IF table_entry # None THEN table_entry
        ELSE None

\* _try_network_sync: cache_entry is codes[step] when step in codes, else None
try_network_sync(cache_entry) == cache_entry

\* _try_dom: input_value is what extract_code_from_input_value returned,
\* scraped what extract_codes_from_dom returned
try_dom(input_value, scraped) ==
    IF Truthy(input_value) /\ is_valid_step_code(input_value) THEN input_value
    ELSE IF Truthy(scraped) /\ is_valid_step_code(scraped) THEN scraped
    ELSE None

-----------------------------------------------------------------------------
(* agent/runner.py: run_step *)

DefaultOrder == <<"localStorage", "network", "dom">>

\* run_step, lines 204-209
TryOrder_ignores_learned(learned_method) == DefaultOrder

\* Variant: a preference for dom leaves the network source out of the order
TryOrder_dom_skips_network(learned_method) ==
    LET try_first == IF learned_method # NoMethod THEN learned_method ELSE "localStorage"
    IN  IF try_first = "localStorage" THEN <<"localStorage", "network", "dom">>
        ELSE IF try_first = "network" THEN <<"network", "localStorage", "dom">>
        ELSE <<"dom", "localStorage">>

TryOrder(learned_method) ==
    LET try_first == IF learned_method # NoMethod THEN learned_method ELSE "localStorage"
    IN  IF try_first = "localStorage" THEN <<"localStorage", "network", "dom">>
        ELSE IF try_first = "network" THEN <<"network", "localStorage", "dom">>
        ELSE <<"dom", "localStorage", "network">>

\* Variant: the walk takes the first non-empty candidate without the validator
RECURSIVE WalkOrder_skips_validator(_, _, _, _)
WalkOrder_skips_validator(order, results, i, method) ==
    IF i > Len(order) THEN [code |-> None, method |-> method]
    ELSE LET src == order[i]
         IN  IF Truthy(results[src])
             THEN [code |-> results[src], method |-> src]
             ELSE WalkOrder_skips_validator(order, results, i + 1, method)

\* Variant: the walk returns the tag as it stood before the accepted source
RECURSIVE WalkOrder_stale_method(_, _, _, _)
WalkOrder_stale_method(order, results, i, method) ==
    IF i > Len(order) THEN [code |-> None, method |-> method]
    ELSE LET src == order[i]
             hit == Truthy(results[src])
         IN  IF hit /\ is_valid_step_code(results[src])
             THEN [code |-> results[src], method |-> method]
             ELSE WalkOrder_stale_method(order, results, i + 1,
                                         IF hit THEN src ELSE method)

\* run_step, lines 210-221: results maps each source to its probe's candidate;
\* the walk of the try-order from position i; the local
\* method is overwritten by every source that yielded something, valid or not
RECURSIVE WalkOrder(_, _, _, _)
WalkOrder(order, results, i, method) ==
    IF i > Len(order) THEN [code |-> None, method |-> method]
    ELSE LET src == order[i]
             hit == Truthy(results[src])
             m == IF hit THEN src ELSE method
         IN  IF hit /\ is_valid_step_code(results[src])
             THEN [code |-> results[src], method |-> m]
             ELSE WalkOrder(order, results, i + 1, m)

\* run_step, lines 222-227
RECURSIVE FallbackScan(_, _, _)
FallbackScan(results, i, method) ==
    IF i > Len(DefaultOrder) THEN [code |-> None, method |-> method]
    ELSE LET src == DefaultOrder[i]
         IN  IF Truthy(results[src]) /\ is_valid_step_code(results[src])
             THEN [code |-> results[src], method |-> src]
             ELSE FallbackScan(results, i + 1, method)

\* Variant: with a learned preference only the preferred source is consulted
SelectCode_learned_only(results, learned_method) ==
    IF learned_method = NoMethod
    THEN WalkOrder(DefaultOrder, results, 1, "dom")
    ELSE LET src == IF learned_method \in Sources THEN learned_method ELSE "dom"
         IN  IF Truthy(results[src]) /\ is_valid_step_code(results[src])
             THEN [code |-> results[src], method |-> src]
             ELSE [code |-> None, method |-> src]

\* run_step, lines 203-227
SelectCode(results, learned_method) ==
    LET walked == WalkOrder(TryOrder(learned_method), results, 1, "dom")
    IN  IF Truthy(walked.code) THEN walked
        ELSE FallbackScan(results, 1, walked.method)

\* run_step, lines 229-254: the second extraction when the first found no code.
\* again.storage is the raw localStorage value read again, again.section what
\* extract_code_from_code_section returned, again.input / again.scraped what the
\* second _try_dom read
SecondChance(sel, again) ==
    IF Truthy(sel.code) THEN sel
    ELSE LET direct_storage_code == get_challenge_code_for_step_from_storage(again.storage)
             retry_dom == try_dom(again.input, again.scraped)
         IN  IF Truthy(direct_storage_code) /\ is_valid_step_code(direct_storage_code)
             THEN [code |-> direct_storage_code, method |-> "localStorage"]
             ELSE IF Truthy(again.section) /\ is_valid_step_code(again.section)
             THEN [code |-> again.section, method |-> "dom"]
             ELSE IF Truthy(retry_dom) /\ is_valid_step_code(retry_dom)
             THEN [code |-> retry_dom, method |-> "dom"]
             ELSE sel

\* The probes' candidates of one run_step call, from what the page held
ProbeResults(page) ==
    [src \in Sources |->
        IF src = "localStorage" THEN try_storage(page.storage, page.table)
        ELSE IF src = "network" THEN try_network_sync(page.network)
        ELSE try_dom(page.input, page.scraped)]

\* run_step: page holds what the probes read, again what the second extraction
\* read, filled what find_and_fill_code_input returned.  handed is the code
\* passed to find_and_fill_code_input (None when it was not called).
run_step(page, again, learned_method, filled) ==
    LET sel == SecondChance(SelectCode(ProbeResults(page), learned_method), again)
    IN  IF ~Truthy(sel.code)
        THEN [ok |-> FALSE, method |-> sel.method, notes |-> "no code found",
              code_used |-> None, handed |-> None]
        ELSE IF ~filled
        THEN [ok |-> FALSE, method |-> sel.method, notes |-> "fill/submit failed",
              code_used |-> sel.code, handed |-> sel.code]
        ELSE [ok |-> TRUE, method |-> sel.method, notes |-> "code_len",
              code_used |-> sel.code, handed |-> sel.code]

-----------------------------------------------------------------------------
(* Specification SpecArbiter: one run_step call on every combination of probe
   readings and learned preference *)

ArbPool == {None, Str_ABC123, Str_XYZ999, Str_Proceed, Str_ACCESS, Str_AB12}
ArbSmallPool == {None, Str_XYZ999, Str_Proceed}
ArbTablePool == {None, Str_ABC123}
ArbInputPool == {None, Str_XYZ999}
\* load_learned keeps only the three sources; a stage without entry gives None
LearnedValues == Sources \cup {NoMethod}

NoResult == [ok |-> FALSE, method |-> NoMethod, notes |-> "", code_used |-> None,
             handed |-> None]

NoAgain == [storage |-> None, section |-> None, input |-> None, scraped |-> None]

ArbInit ==
    /\ a_storage \in ArbPool \cup {Str_padded}
    /\ a_table \in ArbTablePool
    /\ a_network \in ArbPool
    /\ a_input \in ArbInputPool
    /\ a_dom \in ArbPool
    /\ a_learned \in LearnedValues
    /\ a_result = NoResult
    /\ a_again = NoAgain
    /\ a_done = FALSE

ArbPage ==
    [storage |-> a_storage, table |-> a_table, network |-> a_network,
     input |-> a_input, scraped |-> a_dom]

\* One run_step call.  The second extraction (lines 229-254) reads the page only
\* when the first selection found no code.
ArbRunStep ==
    /\ ~a_done
    /\ IF Truthy(SelectCode(ProbeResults(ArbPage), a_learned).code)
       THEN \E filled \in BOOLEAN :
               /\ a_result' = run_step(ArbPage, NoAgain, a_learned, filled)
               /\ a_again' = NoAgain
       ELSE \E s2 \in ArbSmallPool, sec \in ArbSmallPool, d2 \in ArbSmallPool,
               filled \in BOOLEAN :
               /\ a_again' = [storage |-> s2, section |-> sec, input |-> None,
                              scraped |-> d2]
               /\ a_result' = run_step(ArbPage, a_again', a_learned, filled)
    /\ a_done' = TRUE
    /\ UNCHANGED <<a_storage, a_table, a_network, a_input, a_dom, a_learned, run_vars,
                   store_vars, aux_vars>>

ArbNext == ArbRunStep


-----------------------------------------------------------------------------
(* C1: run_step selects the candidate of the first source, in the order
   [learned preference, then the remaining sources in the order storage,
   network, dom], whose probe result is non-empty and passes the validator;
   with storage "ABC123", no network entry and dom "XYZ999" it returns
   XYZ999/dom under preference dom and ABC123/storage under no preference. *)

C1_ClaimOrder(p) ==
    IF p = NoMethod THEN DefaultOrder
    ELSE <<p>> \o SelectSeq(DefaultOrder, LAMBDA x : x # p)

C1_Accepted(src) ==
    LET r == ProbeResults(ArbPage)[src]
    IN  r # None /\ r # << >> /\ is_valid_step_code(r)

C1_ExamplePage ==
    /\ ProbeResults(ArbPage)["localStorage"] = Str_ABC123
    /\ ProbeResults(ArbPage)["network"] = None
    /\ ProbeResults(ArbPage)["dom"] = Str_XYZ999

C1_TryOrderSelection ==
    a_done =>
        /\ LET order == C1_ClaimOrder(a_learned)
           IN  \A i \in 1..Len(order) :
                  (C1_Accepted(order[i]) /\ \A j \in 1..(i - 1) : ~C1_Accepted(order[j]))
                  => /\ a_result.code_used = ProbeResults(ArbPage)[order[i]]
                     /\ a_result.method = order[i]
        /\ (C1_ExamplePage /\ a_learned = "dom")
              => (a_result.code_used = Str_XYZ999 /\ a_result.method = "dom")
        /\ (C1_ExamplePage /\ a_learned = NoMethod)
              => (a_result.code_used = Str_ABC123 /\ a_result.method = "localStorage")

C1_Witness ==
    /\ a_done
    /\ C1_ExamplePage
    /\ a_learned = "dom"
    /\ a_result.code_used = Str_XYZ999
    /\ a_result.method = "dom"

\* learned_method arguments: none, the three sources, and a string that names
\* no source
C19_Preferences == LearnedValues \cup {"cache"}

C19_ValidProbes(results) ==
    {src \in Sources : Truthy(results[src]) /\ is_valid_step_code(results[src])}

(* C19: for fixed probe outputs, whether run_step's selection finds a code does
   not depend on the learned preference: for every preference (none, right,
   stale or an unknown string) a code is selected exactly when some probe
   yielded a non-empty candidate that passes the validator, and the selected
   code is such a candidate; the preference only changes which one. *)
C19_PreferenceNeverHidesACode ==
    a_done =>
        LET results == ProbeResults(ArbPage)
        IN  /\ \A lm \in C19_Preferences :
                  LET sel == SelectCode(results, lm)
                  IN  /\ Truthy(sel.code) <=> (C19_ValidProbes(results) # {})
                      /\ Truthy(sel.code)
                         => (sel.method \in C19_ValidProbes(results)
                             /\ sel.code = results[sel.method])
            /\ (C19_ValidProbes(results) # {})
               => /\ a_result.notes # "no code found"
                  /\ a_result.method \in C19_ValidProbes(results)
                  /\ a_result.code_used = results[a_result.method]

\* a stale preference: the preferred source (network) yielded nothing, storage
\* yielded a decoy, and the dom candidate was selected
C19_Witness ==
    /\ a_done
    /\ a_learned = "network"
    /\ ProbeResults(ArbPage)["network"] = None
    /\ ProbeResults(ArbPage)["localStorage"] = Str_Proceed
    /\ a_result.method = "dom"
    /\ a_result.code_used = Str_XYZ999

\* the sources that produced the code: a probe of the first extraction, or a
\* reading of the second extraction (lines 236-254)
C39_Producers(code) ==
    {src \in Sources : ProbeResults(ArbPage)[src] = code}
    \cup (IF get_challenge_code_for_step_from_storage(a_again.storage) = code
          THEN {"localStorage"} ELSE {})
    \cup (IF a_again.section = code \/ try_dom(a_again.input, a_again.scraped) = code
          THEN {"dom"} ELSE {})

\* an earlier source of the walk yielded a candidate the validator rejected,
\* and a later source yielded the accepted one
C39_EarlierRejected ==
    LET order == TryOrder(a_learned)
        results == ProbeResults(ArbPage)
    IN  \E i, j \in 1..Len(order) :
           /\ i < j
           /\ Truthy(results[order[i]]) /\ ~is_valid_step_code(results[order[i]])
           /\ Truthy(results[order[j]]) /\ is_valid_step_code(results[order[j]])
           /\ \A k \in 1..(j - 1) : results[order[k]] # results[order[j]]

(* C39: whenever run_step returns a code (submitted, or "fill/submit failed"),
   the returned method tag names a source whose probe produced exactly that
   code, also when an earlier source of the try-order yielded a non-empty
   candidate that the validator rejected. *)
C39_MethodNamesProducer ==
    (a_done /\ a_result.code_used # None)
        => a_result.method \in C39_Producers(a_result.code_used)

C39_Witness ==
    /\ a_done
    /\ a_result.code_used # None
    /\ a_result.notes = "fill/submit failed"
    /\ C39_EarlierRejected
    /\ a_result.method \in C39_Producers(a_result.code_used)

\* run_step's selection with lines 222-227 left out
C40_WithoutFallback(lm) ==
    WalkOrder(TryOrder(lm), ProbeResults(ArbPage), 1, "dom")

(* C40: the unordered fallback scan of run_step never changes the outcome: for
   all probe outputs and learned preferences, whenever the ordered walk selects
   no candidate the scan over (storage, network, dom) selects none either, so
   the selection with and without the scan gives the same code and source,
   and so does the call's result. *)
C40_FallbackIsIdle ==
    a_done =>
        /\ \A lm \in C19_Preferences :
              LET walked == C40_WithoutFallback(lm)
              IN  /\ ~Truthy(walked.code)
                      => ~Truthy(FallbackScan(ProbeResults(ArbPage), 1, walked.method).code)
                  /\ SelectCode(ProbeResults(ArbPage), lm) = walked
        /\ LET sel == SecondChance(C40_WithoutFallback(a_learned), a_again)
           IN  /\ a_result.method = sel.method
               /\ a_result.code_used = IF Truthy(sel.code) THEN sel.code ELSE None

\* the walk selected nothing although a source yielded a candidate, the scan
\* ran and the call ended without a code
C40_Witness ==
    /\ a_done
    /\ ~Truthy(C40_WithoutFallback(a_learned).code)
    /\ \E src \in Sources : Truthy(ProbeResults(ArbPage)[src])
    /\ a_result.notes = "no code found"
    /\ a_result.code_used = None

-----------------------------------------------------------------------------
(* agent/runner.py: get_current_step and the stage loop of run_challenge *)

NumStages == 6          \* the challenge's 30 steps, scaled down
EarlyWindow == 5        \* solved_step in (1, 2, 3, 4, 5)
RegressionGap == 3      \* expected_step - page_step >= 3
MaxAttempts == 2        \* stage attempts explored per run
max_retries_per_step == 2
max_llm_calls == 1
advance_poll_count == 2

\* get_current_step: body is the number parse_step_from_page found in the body
\* text ("Step N of 30", any N), attr the number of [data-step] / aria-label,
\* which alone is range-checked
get_current_step(body, attr) ==
    IF body # NoStep THEN body
    ELSE IF attr # NoStep /\ 1 <= attr /\ attr <= NumStages THEN attr
    ELSE NoStep

BodySteps == {NoStep} \cup (0..(NumStages + 1))
AttrSteps == {NoStep, 0, 1, NumStages + 1}
PageReads == {get_current_step(b, a) : b \in BodySteps, a \in AttrSteps}

\* run_challenge, lines 487-497
Resync_never_snaps(expected, page) ==
    IF page # NoStep /\ page > expected THEN page ELSE expected

Resync(expected, page) ==
    IF page # NoStep
    THEN IF page < expected
         THEN IF expected - page >= RegressionGap THEN page ELSE expected
         ELSE IF page > expected THEN page ELSE expected
    ELSE expected

\* metrics.redact_code
redact_code(code) ==
    IF ~Truthy(code) \/ Len(code) < 4 THEN <<"*","*","*","*">>
    ELSE SubSeq(code, 1, 2) \o <<"*","*","*","*">> \o SubSeq(code, Len(code) - 1, Len(code))

\* metrics.StepResult as run_challenge builds it (seconds left out)
StepResult(step, ok, method, notes, code_used) ==
    [step |-> step, ok |-> ok, method |-> method, notes |-> notes,
     code_redacted |-> IF Truthy(code_used) THEN redact_code(code_used) ELSE None]

\* learned.get(step)
LearnedGet(step) == IF step \in DOMAIN learned THEN learned[step] ELSE NoMethod

Pool == {None, Str_ABC123, Str_Proceed}
LearnedMaps == {[st \in 1..NumStages |-> m] : m \in {NoMethod, "dom"}}

\* What one run_step call can read from the page
Pages == [storage : Pool, table : {None}, network : Pool, input : {None}, scraped : Pool]
Agains == [storage : Pool, section : Pool, input : {None}, scraped : {None}]

\* run_step's result on every page reading, by learned preference
RunStepTable ==
    UNION {{<<lm, run_step(pg, ag, lm, f)>> : pg \in Pages, ag \in Agains, f \in BOOLEAN} :
           lm \in LearnedValues}

NoSol == [ok |-> FALSE, method |-> "dom", notes |-> "", code_used |-> None]
NoOutcome == [kind |-> "none", polls |-> 0]

-----------------------------------------------------------------------------
(* agent/learning.py: load_learned and save_learned over the files they read
   and write.  A file is absent, partial (opened for writing and not yet
   completely written: not a JSON document) or a document with its
   method_per_step object, a map from key strings to method strings. *)

EmptyMap == [k \in {} |-> NoMethod]
Absent == [kind |-> "absent", method_per_step |-> EmptyMap]
Partial == [kind |-> "partial", method_per_step |-> EmptyMap]
Doc(m) == [kind |-> "doc", method_per_step |-> m]

DigitChars == <<"0", "1", "2", "3", "4", "5", "6", "7", "8", "9">>

\* str(n) for n >= 0
RECURSIVE str_int(_)
str_int(n) ==
    IF n < 10 THEN <<DigitChars[n + 1]>>
    ELSE str_int(n \div 10) \o <<DigitChars[(n % 10) + 1]>>

IsIntKey(k) == Len(k) > 0 /\ \A i \in 1..Len(k) : k[i] \in Digits

\* int(k) for a string of digits
RECURSIVE int_str(_)
int_str(k) ==
    IF Len(k) = 0 THEN 0
    ELSE 10 * int_str(SubSeq(k, 1, Len(k) - 1))
         + (CHOOSE d \in 0..9 : DigitChars[d + 1] = k[Len(k)])

\* load_learned, lines 24-31, on one file: ok when the file gave the result
\* (it parses, method_per_step is a dict and int(k) raised for no kept item)
LoadFile(file) ==
    LET m == file.method_per_step
        kept == {k \in DOMAIN m : m[k] \in Sources}
    IN  IF file.kind = "doc" /\ \A k \in kept : IsIntKey(k)
        THEN [ok |-> TRUE,
              map |-> [n \in {int_str(k) : k \in kept} |->
                          m[CHOOSE k \in kept : int_str(k) = n]]]
        ELSE [ok |-> FALSE, map |-> EmptyMap]

\* load_learned, lines 13-32, with shared_dir set (main.py line 118): the first
\* of the shared file and out_dir's file that loads is the result
load_learned(shared_file, out_file) ==
    IF LoadFile(shared_file).ok THEN LoadFile(shared_file).map
    ELSE IF LoadFile(out_file).ok THEN LoadFile(out_file).map
    ELSE EmptyMap

\* m with key k set to v (dict assignment)
SetKey(m, k, v) == [x \in DOMAIN m \cup {k} |-> IF x = k THEN v ELSE m[x]]

\* Variant: the first successful result of a stage is kept
AddSuccesses_first_wins(m, ledger, i) ==
    LET succ == {j \in 1..Len(ledger) : ledger[j].ok /\ ledger[j].method # ""}
        keys == {str_int(ledger[j].step) : j \in succ}
    IN  [k \in DOMAIN m \cup keys |->
            IF k \in keys
            THEN ledger[CHOOSE j \in succ : /\ str_int(ledger[j].step) = k
                                            /\ \A j2 \in succ :
                                                  str_int(ledger[j2].step) = k => j <= j2].method
            ELSE m[k]]

\* save_learned, lines 43-45 and 65-67: the loop over step_results from entry i
RECURSIVE AddSuccesses(_, _, _)
AddSuccesses(m, ledger, i) ==
    IF i > Len(ledger) THEN m
    ELSE AddSuccesses(IF ledger[i].ok /\ ledger[i].method # ""
                      THEN SetKey(m, str_int(ledger[i].step), ledger[i].method)
                      ELSE m,
                      ledger, i + 1)

\* save_learned, line 64
StrKeys(map) == [k \in {str_int(n) : n \in DOMAIN map} |->
                    map[CHOOSE n \in DOMAIN map : str_int(n) = k]]

MaxRuns == 2            \* runs against the same shared store
MaxLedgerLen == 2       \* StepResults of one run

StoreSteps == {3, 5}
\* methods of successful results: run_step's sources and line 543's "llm"
StoreMethods == {"network", "dom", "llm"}
StoreEntries ==
    {StepResult(st, TRUE, m, "code_len", Str_ABC123) : st \in StoreSteps, m \in StoreMethods}
    \cup {StepResult(st, FALSE, "dom", "no code found", None) : st \in StoreSteps}
StoreLedgers ==
    UNION {[1..n -> StoreEntries] : n \in 0..MaxLedgerLen}

StoreParked ==
    /\ st_pc = "idle" /\ st_shared = Absent /\ st_local = Absent /\ st_cwd = Absent
    /\ st_learned = EmptyMap /\ st_ledger = << >> /\ st_mps = EmptyMap
    /\ st_merged = EmptyMap /\ st_runs = 0 /\ st_shared_before = Absent

StoreInit ==
    /\ st_pc = "idle"
    /\ st_shared \in {Absent, Doc(SetKey(EmptyMap, str_int(3), "network"))}
    /\ st_local \in {Absent, Doc(SetKey(SetKey(EmptyMap, str_int(3), "dom"),
                                        str_int(5), "dom"))}
    /\ st_cwd \in {Absent, Doc(SetKey(EmptyMap, str_int(7), "dom"))}
    /\ st_learned = EmptyMap
    /\ st_ledger = << >>
    /\ st_mps = EmptyMap
    /\ st_merged = EmptyMap
    /\ st_runs = 0
    /\ st_shared_before = st_shared

\* main.py lines 55 and 84-119, runner.py line 460: a run starts, in a new run
\* folder when main is started again (fresh) or in the same one for a further
\* iteration, and loads the learned map
StartRun(fresh) ==
    /\ st_pc \in {"idle", "returned", "propagated", "killed"}
    /\ st_pc = "killed" => fresh
    /\ st_runs < MaxRuns
    /\ st_runs' = st_runs + 1
    /\ st_local' = IF fresh THEN Absent ELSE st_local
    /\ st_learned' = load_learned(st_shared, st_local')
    /\ st_ledger' = << >>
    /\ st_mps' = EmptyMap
    /\ st_merged' = EmptyMap
    /\ st_pc' = "loop"
    /\ UNCHANGED <<st_shared, st_cwd, st_shared_before, arb_vars, run_vars, aux_vars>>

\* run_challenge, lines 475-676: the stage loop is left with step_results =
\* ledger, by falling out of the loop (how = "returned"), by an exception that
\* line 653 raises again or by the cancellation of wait_for (main.py 86-121);
\* the finally block runs in each case and only the first goes on to line 681
EndLoop(ledger, how) ==
    /\ st_pc = "loop"
    /\ st_ledger' = ledger
    /\ st_pc' = IF how = "returned" THEN "save_begin" ELSE "propagated"
    /\ UNCHANGED <<st_shared, st_local, st_cwd, st_learned, st_mps, st_merged, st_runs,
                   st_shared_before, arb_vars, run_vars, aux_vars>>

\* save_learned, lines 40-52
SaveBegin ==
    /\ st_pc = "save_begin"
    /\ st_shared_before' = st_shared
    /\ LET method_per_step == AddSuccesses(EmptyMap, st_ledger, 1)
       IN  /\ st_mps' = method_per_step
           /\ st_pc' = IF Len(st_ledger) = 0 \/ DOMAIN method_per_step = {}
                       THEN "returned" ELSE "local_open"
    /\ UNCHANGED <<st_shared, st_local, st_cwd, st_learned, st_ledger, st_merged, st_runs,
                   arb_vars, run_vars, aux_vars>>

\* save_learned, line 56: open(..., "w") truncates the run folder's file
SaveLocalOpen ==
    /\ st_pc = "local_open"
    /\ st_local' = Partial
    /\ st_pc' = "local_dump"
    /\ UNCHANGED <<st_shared, st_cwd, st_learned, st_ledger, st_mps, st_merged, st_runs,
                   st_shared_before, arb_vars, run_vars, aux_vars>>

\* save_learned, line 57: json.dump and close
SaveLocalDump ==
    /\ st_pc = "local_dump"
    /\ st_local' = Doc(st_mps)
    /\ st_pc' = "shared_read"
    /\ UNCHANGED <<st_shared, st_cwd, st_learned, st_ledger, st_mps, st_merged, st_runs,
                   st_shared_before, arb_vars, run_vars, aux_vars>>

\* save_learned, lines 63-67
SaveSharedRead ==
    /\ st_pc = "shared_read"
    /\ st_merged' = AddSuccesses(StrKeys(load_learned(st_shared, st_cwd)), st_ledger, 1)
    /\ st_pc' = "shared_open"
    /\ UNCHANGED <<st_shared, st_local, st_cwd, st_learned, st_ledger, st_mps, st_runs,
                   st_shared_before, arb_vars, run_vars, aux_vars>>

\* save_learned, line 70
SaveSharedOpen ==
    /\ st_pc = "shared_open"
    /\ st_shared' = Partial
    /\ st_pc' = "shared_dump"
    /\ UNCHANGED <<st_local, st_cwd, st_learned, st_ledger, st_mps, st_merged, st_runs,
                   st_shared_before, arb_vars, run_vars, aux_vars>>

\* save_learned, lines 71-75
SaveSharedDump ==
    /\ st_pc = "shared_dump"
    /\ st_shared' = Doc(st_merged)
    /\ st_pc' = "returned"
    /\ UNCHANGED <<st_local, st_cwd, st_learned, st_ledger, st_mps, st_merged, st_runs,
                   st_shared_before, arb_vars, run_vars, aux_vars>>

SavePositions == {"save_begin", "local_open", "local_dump", "shared_read", "shared_open",
                  "shared_dump"}

\* run_overnight.py, lines 76-82 and 108: subprocess.run kills main.py when its
\* timeout expires, wherever save_learned is
Kill ==
    /\ st_pc \in SavePositions
    /\ st_pc' = "killed"
    /\ UNCHANGED <<st_shared, st_local, st_cwd, st_learned, st_ledger, st_mps, st_merged,
                   st_runs, st_shared_before, arb_vars, run_vars, aux_vars>>

StoreNext ==
    \/ \E fresh \in BOOLEAN : StartRun(fresh)
    \/ \E ledger \in StoreLedgers, how \in {"returned", "raised", "cancelled"} :
          EndLoop(ledger, how)
    \/ SaveBegin
    \/ SaveLocalOpen
    \/ SaveLocalDump
    \/ SaveSharedRead
    \/ SaveSharedOpen
    \/ SaveSharedDump
    \/ Kill

ArbParked ==
    /\ a_storage = None /\ a_table = None /\ a_network = None /\ a_input = None
    /\ a_dom = None /\ a_learned = NoMethod /\ a_result = NoResult /\ a_again = NoAgain
    /\ a_done = FALSE

RunInit ==
    /\ pc = "top"
    /\ continue_on_error \in BOOLEAN
    /\ use_llm \in BOOLEAN
    /\ learned \in LearnedMaps
    /\ expected_step = 1
    /\ attempted = 0
    /\ solved = 0
    /\ step_results = << >>
    /\ llm_calls_used = 0
    /\ llm_invocations = 0
    /\ page_step = NoStep
    /\ sol = NoSol
    /\ sol_retry = NoSol
    /\ solved_step = 0
    /\ s_final = NoStep
    /\ poll = 0
    /\ site = "main"
    /\ attempt = 0
    /\ last_code = None
    /\ handed = {}
    /\ dispatched = 0
    /\ re_resolutions = 0
    /\ attempt_stage = 0
    /\ outcome = NoOutcome

HappyParked == hp_stage = 1

ValParked == v_input = << >> /\ v_result = FALSE /\ v_done = FALSE

ProbeParked ==
    /\ network_cache = EmptyMap /\ nc_pc = "created" /\ rs_pc = "idle" /\ rs_step = 1
    /\ t_storage = "none" /\ t_dom = "none" /\ rs_codes = EmptyMap
    /\ network_result = None /\ rs_calls = 0 /\ rs_cache_at_launch = EmptyMap
    /\ rs_done_at_read = {}

NoReply == [json |-> "invalid", items |-> << >>]

PlanParked ==
    p_raw = NoReply /\ p_plan = << >> /\ p_pc = "ask" /\ p_i = 1 /\ p_log = << >>

\* extract_codes_from_storage returns None for an empty table: the table without
\* any stage stands for it
NoTable == << >>

StorageProbeParked ==
    /\ storage_codes = NoTable /\ use_fast_path = FALSE
    /\ local_storage = [st \in 1..NumStages |-> None]
    /\ sp_step = 1 /\ sp_read = None /\ sp_result = None /\ sp_calls = 0
    /\ sp_table_at_start = NoTable

FillParked ==
    /\ f_inputs = << >> /\ f_section = None /\ f_controls = << >> /\ f_pc = "input"
    /\ f_sel = 1 /\ f_btn = 1 /\ f_ret = FALSE /\ f_filled = FALSE /\ f_entered = FALSE
    /\ f_clicked = {}

ScanParked == j_levels = << >> /\ j_deepest = 0 /\ j_result = << >> /\ j_done = FALSE

Savers == {1, 2}

SaversParked ==
    /\ w_shared = [kind |-> "absent", method_per_step |-> << >>]
    /\ w_pc = [p \in Savers |-> "returned"]
    /\ w_merged = [p \in Savers |-> << >>]
    /\ w_ledger = [p \in Savers |-> << >>]

ExtParked == StorageProbeParked /\ FillParked /\ ScanParked /\ SaversParked

AuxParked == HappyParked /\ ValParked /\ ProbeParked /\ PlanParked /\ ExtParked

Init == ArbParked /\ RunInit /\ StoreParked /\ AuxParked

config_vars == <<continue_on_error, use_llm, learned>>
progress_vars == <<expected_step, solved, step_results, outcome>>

\* The loop body's locals are dead when an iteration ends (each is assigned
\* before it is read in the next one): they go back to their initial values
ResetLocals ==
    /\ page_step' = NoStep
    /\ sol' = NoSol
    /\ sol_retry' = NoSol
    /\ solved_step' = 0
    /\ s_final' = NoStep
    /\ poll' = 0
    /\ site' = "main"
    /\ attempt' = 0
    /\ last_code' = None

\* run_challenge, lines 475-515: the loop test, the page's step (read again after
\* START when the first read gave none), the resync and the attempt counter.
\* The loop body from line 516 continues at pc = "solve".  The model explores at
\* most cap stage attempts of a run.
BeginAttemptWithin(first, second, cap) ==
    /\ pc = "top"
    /\ expected_step <= NumStages
    /\ attempted < cap
    /\ LET read == IF first # NoStep THEN first ELSE second
       IN  /\ page_step' = read
           /\ expected_step' = Resync(expected_step, read)
    /\ attempted' = attempted + 1
    /\ pc' = "solve"
    /\ site' = "main"
    /\ attempt' = 0
    /\ last_code' = None
    /\ dispatched' = 0
    /\ re_resolutions' = 0
    /\ attempt_stage' = expected_step'
    /\ outcome' = NoOutcome
    /\ UNCHANGED <<config_vars, solved, step_results, llm_calls_used, llm_invocations, sol,
                   sol_retry, solved_step, s_final, poll, handed, arb_vars, store_vars, aux_vars>>

BeginAttempt(first, second) == BeginAttemptWithin(first, second, MaxAttempts)

\* run_challenge, line 475: the loop ends when expected_step > 30
LoopExit ==
    /\ pc = "top"
    /\ expected_step > NumStages
    /\ pc' = "done"
    /\ UNCHANGED <<config_vars, progress_vars, attempted, llm_calls_used, llm_invocations, page_step, sol,
                   sol_retry, solved_step, s_final, poll, site, attempt, last_code, handed,
                   dispatched, re_resolutions, attempt_stage, arb_vars, store_vars, aux_vars>>

\* Variant: a recorded failure never stops the loop
AfterFailure_always_continues ==
    expected_step' = expected_step + 1 /\ pc' = "top"

\* run_challenge, lines 567-570 and 638-641
AfterFailure ==
    IF continue_on_error
    THEN expected_step' = expected_step + 1 /\ pc' = "top"
    ELSE expected_step' = expected_step /\ pc' = "done"

\* run_challenge, lines 547-570: res is what the last solve_one_step returned
RecordFailure(res) ==
    /\ step_results' = Append(step_results,
           StepResult(expected_step, FALSE, res.method, res.notes, res.code_used))
    /\ AfterFailure
    /\ solved' = solved
    /\ outcome' = [kind |-> "failed", polls |-> 0]
    /\ ResetLocals

\* run_challenge, lines 631-641: the page still shows solved_step
StallFailure ==
    /\ step_results' = Append(step_results,
           StepResult(solved_step, FALSE, sol.method, "submit did not advance", sol.code_used))
    /\ AfterFailure
    /\ solved' = solved
    /\ outcome' = [kind |-> "stalled", polls |-> poll]
    /\ ResetLocals

\* Variant: a recorded success always moves the expected stage on by one
RecordSuccess_steps_by_one(res, next, kind, polls) ==
    /\ step_results' = Append(step_results,
           StepResult(solved_step, TRUE, res.method, res.notes, res.code_used))
    /\ expected_step' = solved_step + 1
    /\ solved' = solved + 1
    /\ pc' = "top"
    /\ outcome' = [kind |-> kind, polls |-> polls]
    /\ ResetLocals

\* Variant: a success is recorded without counting it
RecordSuccess_uncounted(res, next, kind, polls) ==
    /\ step_results' = Append(step_results,
           StepResult(solved_step, TRUE, res.method, res.notes, res.code_used))
    /\ expected_step' = next
    /\ solved' = solved
    /\ pc' = "top"
    /\ outcome' = [kind |-> kind, polls |-> polls]
    /\ ResetLocals

\* run_challenge, lines 583-590, 610-617, 620-626, 645-649: a success is recorded
\* from res and the loop goes on at stage next
RecordSuccess(res, next, kind, polls) ==
    /\ step_results' = Append(step_results,
           StepResult(solved_step, TRUE, res.method, res.notes, res.code_used))
    /\ expected_step' = next
    /\ solved' = solved + 1
    /\ pc' = "top"
    /\ outcome' = [kind |-> kind, polls |-> polls]
    /\ ResetLocals

\* Variant: a solve_one_step that returned ok is recorded as a success at once
Return_trusts_submission(res) ==
    IF res.ok
    THEN RecordSuccess(res, expected_step + 1, "advanced", 0)
    ELSE RecordFailure(res)

\* What run_challenge does with what solve_one_step returned, at each call site:
\* lines 516-547 (main), 537-547 (llm), 599-605 and 629-641 (retry)
Return(res) ==
    IF site = "main" \/ site = "llm"
    THEN IF res.ok
         THEN /\ sol' = IF site = "llm" THEN [res EXCEPT !.method = "llm"] ELSE res
              /\ solved_step' = expected_step
              /\ poll' = 0
              /\ pc' = "poll"
              /\ attempt' = 0
              /\ last_code' = None
              /\ UNCHANGED <<progress_vars, page_step, sol_retry, s_final, site>>
         ELSE IF site = "main" /\ use_llm /\ llm_calls_used < max_llm_calls
         THEN /\ sol' = res
              /\ pc' = "llm"
              /\ attempt' = 0
              /\ last_code' = None
              /\ UNCHANGED <<progress_vars, page_step, sol_retry, solved_step, s_final, poll,
                             site>>
         ELSE RecordFailure(res)
    ELSE IF res.ok
         THEN /\ sol_retry' = res
              /\ poll' = 0
              /\ pc' = "retry_poll"
              /\ attempt' = 0
              /\ last_code' = None
              /\ UNCHANGED <<progress_vars, page_step, sol, solved_step, s_final, site>>
         ELSE StallFailure

\* Variant: a failed solve_one_step reports only its last run_step's code
LastCode_of_last_attempt(code_used, last) == code_used

\* solve_one_step, lines 313-314: last_code after a run_step that returned code_used
LastCode(code_used, last) == IF code_used # None THEN code_used ELSE last

\* Variant: solve_one_step goes through all its attempts, submitting in each
RunStepCallWith_submits_every_attempt(entry) ==
    /\ pc = "solve"
    /\ LET stage == IF site = "retry" THEN solved_step ELSE expected_step
           r == entry[2]
           code == LastCode(r.code_used, last_code)
           res == [ok |-> r.ok, method |-> r.method, notes |-> r.notes,
                   code_used |-> IF r.ok THEN r.code_used ELSE code]
       IN  /\ entry[1] = LearnedGet(stage)
           /\ handed' = IF r.handed # None THEN handed \cup {r.handed} ELSE handed
           /\ dispatched' = IF r.ok THEN dispatched + 1 ELSE dispatched
           /\ IF attempt + 1 >= max_retries_per_step
              THEN Return(res)
              ELSE /\ attempt' = attempt + 1
                   /\ last_code' = code
                   /\ UNCHANGED <<pc, progress_vars, page_step, sol, sol_retry,
                                  solved_step, s_final, poll, site>>
    /\ UNCHANGED <<config_vars, attempted, llm_calls_used, llm_invocations, re_resolutions, attempt_stage,
                   arb_vars, store_vars, aux_vars>>

\* solve_one_step, lines 305-322: one pass of its loop, a run_step call for the
\* stage; entry = <<learned_method, r>> with r run_step's result on some reading
\* of the page
RunStepCallWith(entry) ==
    /\ pc = "solve"
    /\ LET stage == IF site = "retry" THEN solved_step ELSE expected_step
           r == entry[2]
           code == LastCode(r.code_used, last_code)
           res == [ok |-> r.ok, method |-> r.method, notes |-> r.notes,
                   code_used |-> IF r.ok THEN r.code_used ELSE code]
       IN  /\ entry[1] = LearnedGet(stage)
           /\ handed' = IF r.handed # None THEN handed \cup {r.handed} ELSE handed
           /\ dispatched' = IF r.ok THEN dispatched + 1 ELSE dispatched
           /\ IF r.ok \/ attempt + 1 >= max_retries_per_step
              THEN Return(res)
              ELSE /\ attempt' = attempt + 1
                   /\ last_code' = code
                   /\ UNCHANGED <<pc, progress_vars, page_step, sol, sol_retry,
                                  solved_step, s_final, poll, site>>
    /\ UNCHANGED <<config_vars, attempted, llm_calls_used, llm_invocations, re_resolutions, attempt_stage,
                   arb_vars, store_vars, aux_vars>>

RunStepCall == \E entry \in RunStepTable : RunStepCallWith(entry)

\* What the LLM fallback of lines 523-545 can come to: "plan" a non-empty plan that
\* executed; "failed" a non-empty plan whose execution raised (after line 534);
\* "empty" an empty plan from ask_llm_for_plan; "ask_failed" ask_llm_for_plan
\* raised; "context_failed" the import or get_page_context raised before the call
LlmPlans == {"plan", "failed", "empty", "ask_failed", "context_failed"}

\* run_challenge, lines 523-545
LlmFallback(plan) ==
    /\ pc = "llm"
    /\ llm_invocations' = IF plan = "context_failed" THEN llm_invocations
                          ELSE llm_invocations + 1
    /\ llm_calls_used' = IF plan \in {"plan", "failed"} THEN llm_calls_used + 1
                         ELSE llm_calls_used
    /\ IF plan = "plan"
       THEN /\ pc' = "solve"
            /\ site' = "llm"
            /\ attempt' = 0
            /\ last_code' = None
            /\ UNCHANGED <<progress_vars, page_step, sol, sol_retry, solved_step, s_final,
                           poll>>
       ELSE RecordFailure(sol)
    /\ UNCHANGED <<config_vars, attempted, handed, dispatched, re_resolutions,
                   attempt_stage, arb_vars, store_vars, aux_vars>>

\* run_challenge, lines 576-590: one poll of the page's step after the
\* submission; s is what get_current_step returned
Poll(s) ==
    /\ pc = "poll"
    /\ IF s # NoStep /\ s >= expected_step + 1
       THEN RecordSuccess(sol, s, "advanced", poll + 1)
       ELSE /\ poll' = poll + 1
            /\ pc' = IF poll + 1 >= advance_poll_count THEN "final" ELSE "poll"
            /\ UNCHANGED <<progress_vars, page_step, sol, sol_retry, solved_step, s_final,
                           site, attempt, last_code>>
    /\ UNCHANGED <<config_vars, attempted, llm_calls_used, llm_invocations, handed, dispatched,
                   re_resolutions, attempt_stage, arb_vars, store_vars, aux_vars>>

\* Variant: a stalled stage fails at once whatever the stage
FinalRead_never_retries(s) ==
    /\ pc = "final"
    /\ IF s = solved_step
       THEN StallFailure
       ELSE RecordSuccess(sol, expected_step + 1, "inferred", poll)
    /\ UNCHANGED <<config_vars, attempted, llm_calls_used, llm_invocations, handed, dispatched, attempt_stage,
                   re_resolutions, arb_vars, store_vars, aux_vars>>

\* Variant: a stalled stage is resolved again whatever the stage
FinalRead_retries_every_stage(s) ==
    /\ pc = "final"
    /\ IF s = solved_step
       THEN /\ s_final' = s
            /\ pc' = "solve"
            /\ site' = "retry"
            /\ attempt' = 0
            /\ last_code' = None
            /\ re_resolutions' = re_resolutions + 1
            /\ UNCHANGED <<progress_vars, page_step, sol, sol_retry, solved_step, poll>>
       ELSE /\ RecordSuccess(sol, expected_step + 1, "inferred", poll)
            /\ UNCHANGED re_resolutions
    /\ UNCHANGED <<config_vars, attempted, llm_calls_used, llm_invocations, handed, dispatched, attempt_stage,
                   arb_vars, store_vars, aux_vars>>

\* run_challenge, lines 591-603 and 631-649: the read after the polls ran out
FinalRead(s) ==
    /\ pc = "final"
    /\ IF s = solved_step
       THEN IF solved_step \in 1..EarlyWindow
            THEN /\ s_final' = s
                 /\ pc' = "solve"
                 /\ site' = "retry"
                 /\ attempt' = 0
                 /\ last_code' = None
                 /\ re_resolutions' = re_resolutions + 1
                 /\ UNCHANGED <<progress_vars, page_step, sol, sol_retry, solved_step, poll>>
            ELSE /\ StallFailure
                 /\ UNCHANGED re_resolutions
       ELSE /\ RecordSuccess(sol, expected_step + 1, "inferred", poll)
            /\ UNCHANGED re_resolutions
    /\ UNCHANGED <<config_vars, attempted, llm_calls_used, llm_invocations, handed, dispatched, attempt_stage,
                   arb_vars, store_vars, aux_vars>>

\* run_challenge, lines 606-617: one poll after the re-resolution's submission
RetryPoll(s) ==
    /\ pc = "retry_poll"
    /\ IF s # NoStep /\ s >= solved_step + 1
       THEN RecordSuccess(sol_retry, s, "retry_advanced", 0)
       ELSE /\ poll' = poll + 1
            /\ pc' = IF poll + 1 >= advance_poll_count THEN "retry_final" ELSE "retry_poll"
            /\ UNCHANGED <<progress_vars, page_step, sol, sol_retry, solved_step, s_final,
                           site, attempt, last_code>>
    /\ UNCHANGED <<config_vars, attempted, llm_calls_used, llm_invocations, handed, dispatched,
                   re_resolutions, attempt_stage, arb_vars, store_vars, aux_vars>>

\* run_challenge, lines 618-642: the read after the re-resolution's polls ran out
RetryFinalRead(s) ==
    /\ pc = "retry_final"
    /\ IF s # NoStep /\ s # solved_step
       THEN RecordSuccess(sol_retry, s, "retry_moved", poll)
       ELSE IF s = solved_step
       THEN StallFailure
       ELSE /\ pc' = "top"
            /\ outcome' = [kind |-> "unrecorded", polls |-> poll]
            /\ ResetLocals
            /\ UNCHANGED <<expected_step, solved, step_results>>
    /\ UNCHANGED <<config_vars, attempted, llm_calls_used, llm_invocations, handed, dispatched,
                   re_resolutions, attempt_stage, arb_vars, store_vars, aux_vars>>

\* A place in the stage loop where one page operation can raise: the operation,
\* the function that performs it, the component it belongs to, the loop
\* positions (pc) at which it runs, and for each function on the call path from
\* that function out to run_challenge's loop body whether the call is inside a
\* try/except Exception there
FaultSites ==
    { \* runner.py 69-87: get_current_step wraps its evaluate calls
      [op |-> "evaluate", fn |-> "get_current_step", component |-> "tracker",
       at |-> {"top", "poll", "final", "retry_poll", "retry_final"},
       frames |-> <<TRUE, FALSE>>],
      \* runner.py 121, called at 484: no handler
      [op |-> "evaluate", fn |-> "wait_for_ready_state", component |-> "ready_wait",
       at |-> {"top"}, frames |-> <<FALSE, FALSE>>],
      \* actions.py 210, via normalize_ui 264, run_step 181, solve_one_step 310,
      \* run_challenge 516: no handler on the path
      [op |-> "key press", fn |-> "_close_overlays_one_round", component |-> "normalizer",
       at |-> {"top", "solve"}, frames |-> <<FALSE, FALSE, FALSE, FALSE, FALSE>>],
      \* actions.py 32-36: the consent click is wrapped
      [op |-> "click", fn |-> "_close_cookie_consent", component |-> "normalizer",
       at |-> {"top", "solve"}, frames |-> <<TRUE, FALSE, FALSE, FALSE, FALSE>>],
      \* extractors.py 229-241
      [op |-> "evaluate", fn |-> "get_challenge_code_for_step_from_storage",
       component |-> "probe", at |-> {"solve"},
       frames |-> <<TRUE, FALSE, FALSE, FALSE, FALSE>>],
      \* extractors.py 113-223
      [op |-> "click", fn |-> "extract_codes_from_dom", component |-> "probe",
       at |-> {"solve"}, frames |-> <<TRUE, FALSE, FALSE, FALSE, FALSE>>],
      \* actions.py 389-427
      [op |-> "fill", fn |-> "find_and_fill_code_input", component |-> "submission",
       at |-> {"solve"}, frames |-> <<TRUE, FALSE, FALSE, FALSE>>],
      \* runner.py 182: run_step's waits between its calls
      [op |-> "wait", fn |-> "run_step", component |-> "arbiter",
       at |-> {"solve"}, frames |-> <<FALSE, FALSE, FALSE>>],
      \* runner.py 577, 608: the loop's own waits
      [op |-> "wait", fn |-> "run_challenge", component |-> "loop",
       at |-> {"poll", "retry_poll"}, frames |-> <<FALSE>>] }

\* An exception is absorbed by the innermost enclosing handler, if any
Handled(fault_site) ==
    \E i \in 1..Len(fault_site.frames) : fault_site.frames[i]

\* A page operation raises at fault_site.  A handled fault leaves the component
\* with its empty result (None, False), which the loop's actions draw anyway; an
\* unhandled one reaches run_challenge's except of lines 651-653, which raises
\* it again: the loop is left and its locals are gone
PageFault(fault_site) ==
    /\ pc \in fault_site.at
    /\ pc = "top" => (expected_step <= NumStages /\ attempted < MaxAttempts)
    /\ IF Handled(fault_site)
       THEN UNCHANGED <<pc, progress_vars, page_step, sol, sol_retry, solved_step, s_final,
                        poll, site, attempt, last_code>>
       ELSE /\ pc' = "raised"
            /\ outcome' = [kind |-> "raised", polls |-> 0]
            /\ ResetLocals
            /\ UNCHANGED <<expected_step, solved, step_results>>
    /\ UNCHANGED <<config_vars, attempted, llm_calls_used, llm_invocations, handed,
                   dispatched, re_resolutions, attempt_stage, arb_vars, store_vars, aux_vars>>

Next ==
    \/ \E first \in PageReads, second \in PageReads : BeginAttempt(first, second)
    \/ LoopExit
    \/ RunStepCall
    \/ \E plan \in LlmPlans : LlmFallback(plan)
    \/ \E s \in PageReads : Poll(s)
    \/ \E s \in PageReads : FinalRead(s)
    \/ \E s \in PageReads : RetryPoll(s)
    \/ \E s \in PageReads : RetryFinalRead(s)
    \/ \E fault_site \in FaultSites : PageFault(fault_site)

Spec == Init /\ [][Next]_vars

\* run_step on its own: the stage loop stays parked in its initial state
RunParked ==
    /\ RunInit
    /\ continue_on_error = FALSE
    /\ use_llm = FALSE
    /\ learned = [st \in 1..NumStages |-> NoMethod]

InitArbiter == ArbInit /\ RunParked /\ StoreParked /\ AuxParked

SpecArbiter == InitArbiter /\ [][ArbNext]_vars

\* The learning store on its own: run_step and the stage loop stay parked
InitStore == ArbParked /\ RunParked /\ StoreInit /\ AuxParked

SpecStore == InitStore /\ [][StoreNext]_vars

-----------------------------------------------------------------------------
(* Specification SpecProbes: the network cache from its creation (runner.py
   428-430), the response listener that fills it (extractors.py 396-419) and the
   probes of run_step (runner.py 197-201), on asyncio's single thread: a task
   created by create_task runs, and the listener's on_response runs, only while
   the main coroutine is suspended in an await. *)

MaxProbeCalls == 2      \* run_step calls explored
ProbeStages == {1, 2}
ProbeCodes == {Str_ABC123, Str_XYZ999}

\* What _parse_json_for_codes can find in one response: a map from stages to
\* codes, empty when the response is not JSON or holds no code
ProbeMappings == UNION {[sub -> ProbeCodes] : sub \in SUBSET ProbeStages}

\* dict.get(k)
Lookup(map, k) == IF k \in DOMAIN map THEN map[k] ELSE None

\* Variant: the cache is replaced by the latest response's codes
Inject_replaces(cache, mapping) == mapping

\* _inject_network_codes_from_json, lines 399-401: cache[step] = code for each item
Inject(cache, mapping) ==
    [k \in DOMAIN cache \cup DOMAIN mapping |->
        IF k \in DOMAIN mapping THEN mapping[k] ELSE cache[k]]

\* Variant: the network probe takes the stage's entry out of the cache
CacheAfterRead_pops(cache, step) == [k \in DOMAIN cache \ {step} |-> cache[k]]

\* _try_network_sync, lines 141-144: the cache after the read
CacheAfterRead(cache, step) == cache

InitProbes ==
    /\ ArbParked
    /\ RunParked
    /\ StoreParked
    /\ HappyParked
    /\ ValParked
    /\ PlanParked
    /\ ExtParked
    /\ network_cache = EmptyMap
    /\ nc_pc = "created"
    /\ rs_pc = "idle"
    /\ rs_step = 1
    /\ t_storage = "none"
    /\ t_dom = "none"
    /\ rs_codes = EmptyMap
    /\ network_result = None
    /\ rs_calls = 0
    /\ rs_cache_at_launch = EmptyMap
    /\ rs_done_at_read = {}

probe_others == <<arb_vars, run_vars, store_vars, happy_vars, val_vars, plan_vars,
                  ext_vars>>

\* run_challenge, line 429: clear_network_codes_cache (extractors.py 392-393)
ClearCache ==
    /\ nc_pc = "created"
    /\ network_cache' = EmptyMap
    /\ nc_pc' = "cleared"
    /\ UNCHANGED <<rs_pc, rs_step, t_storage, t_dom, rs_codes, network_result, rs_calls,
                   rs_cache_at_launch, rs_done_at_read, probe_others>>

\* run_challenge, line 430: install_network_listener
InstallListener ==
    /\ nc_pc = "cleared"
    /\ nc_pc' = "installed"
    /\ UNCHANGED <<network_cache, rs_pc, rs_step, t_storage, t_dom, rs_codes,
                   network_result, rs_calls, rs_cache_at_launch, rs_done_at_read,
                   probe_others>>

\* The main coroutine is suspended in an await
MainSuspended == rs_pc \in {"idle", "await_storage", "await_dom"}

\* on_response, extractors.py 408-417: one response handled
OnResponse(mapping) ==
    /\ nc_pc = "installed"
    /\ MainSuspended
    /\ network_cache' = Inject(network_cache, mapping)
    /\ UNCHANGED <<nc_pc, rs_pc, rs_step, t_storage, t_dom, rs_codes, network_result,
                   rs_calls, rs_cache_at_launch, rs_done_at_read, probe_others>>

\* run_step, line 197
LaunchStorage(step) ==
    /\ nc_pc = "installed"
    /\ rs_pc = "idle"
    /\ rs_calls < MaxProbeCalls
    /\ rs_step' = step
    /\ t_storage' = "scheduled"
    /\ t_dom' = "none"
    /\ rs_pc' = "launch_dom"
    /\ UNCHANGED <<network_cache, nc_pc, rs_codes, network_result, rs_calls,
                   rs_cache_at_launch, rs_done_at_read, probe_others>>

\* run_step, line 198
LaunchDom ==
    /\ rs_pc = "launch_dom"
    /\ t_dom' = "scheduled"
    /\ rs_cache_at_launch' = network_cache
    /\ rs_pc' = "await_storage"
    /\ UNCHANGED <<network_cache, nc_pc, rs_step, t_storage, rs_codes, network_result,
                   rs_calls, rs_done_at_read, probe_others>>

\* _try_storage (127-136) runs to its end
StorageProbeCompletes ==
    /\ t_storage = "scheduled"
    /\ rs_pc \in {"await_storage", "await_dom"}
    /\ t_storage' = "done"
    /\ UNCHANGED <<network_cache, nc_pc, rs_pc, rs_step, t_dom, rs_codes, network_result,
                   rs_calls, rs_cache_at_launch, rs_done_at_read, probe_others>>

\* _try_dom (147-160) runs to its end
DomProbeCompletes ==
    /\ t_dom = "scheduled"
    /\ rs_pc \in {"await_storage", "await_dom"}
    /\ t_dom' = "done"
    /\ UNCHANGED <<network_cache, nc_pc, rs_pc, rs_step, t_storage, rs_codes,
                   network_result, rs_calls, rs_cache_at_launch, rs_done_at_read,
                   probe_others>>

\* run_step, line 199: await storage_future returns
AwaitStorageReturns ==
    /\ rs_pc = "await_storage"
    /\ t_storage = "done"
    /\ rs_pc' = "await_dom"
    /\ UNCHANGED <<network_cache, nc_pc, rs_step, t_storage, t_dom, rs_codes,
                   network_result, rs_calls, rs_cache_at_launch, rs_done_at_read,
                   probe_others>>

\* run_step, line 200: await dom_future returns
AwaitDomReturns ==
    /\ rs_pc = "await_dom"
    /\ t_dom = "done"
    /\ rs_pc' = "read_network"
    /\ UNCHANGED <<network_cache, nc_pc, rs_step, t_storage, t_dom, rs_codes,
                   network_result, rs_calls, rs_cache_at_launch, rs_done_at_read,
                   probe_others>>

\* run_step, line 201: _try_network_sync (139-144) with get_network_codes'
\* copy (extractors.py 387-389); run_step then goes on without touching the cache
NetworkRead ==
    /\ rs_pc = "read_network"
    /\ rs_codes' = network_cache
    /\ network_result' = Lookup(network_cache, rs_step)
    /\ network_cache' = CacheAfterRead(network_cache, rs_step)
    /\ rs_done_at_read' = {t \in {"storage", "dom"} :
                              IF t = "storage" THEN t_storage = "done" ELSE t_dom = "done"}
    /\ rs_calls' = rs_calls + 1
    /\ rs_pc' = "idle"
    /\ UNCHANGED <<nc_pc, rs_step, t_storage, t_dom, rs_cache_at_launch, probe_others>>

ProbesNext ==
    \/ ClearCache
    \/ InstallListener
    \/ \E mapping \in ProbeMappings : OnResponse(mapping)
    \/ \E step \in ProbeStages : LaunchStorage(step)
    \/ LaunchDom
    \/ StorageProbeCompletes
    \/ DomProbeCompletes
    \/ AwaitStorageReturns
    \/ AwaitDomReturns
    \/ NetworkRead

SpecProbes == InitProbes /\ [][ProbesNext]_vars

-----------------------------------------------------------------------------
(* Specification SpecStorageProbe: agent/runner.py, _try_storage against the
   page's localStorage and the table extract_codes_from_storage built at run
   start (lines 451-453).  The page may rewrite its localStorage entries at any
   time; the table is what the run read once. *)

MaxStorageCalls == 2
SpStages == {1, 2}

Str_too_short == <<"A","B">>
Str_blank_padded == <<" "," ","A"," ">>
Str_of_64 == [i \in 1..MaxStoredLen |-> "Z"]
Str_of_65 == [i \in 1..(MaxStoredLen + 1) |-> "Z"]

\* values a challenge_code_step_N entry can hold; None is a missing entry
SpRawValues ==
    {None, << >>, Str_too_short, Str_blank_padded, Str_padded, Str_ABC123, Str_of_64,
     Str_of_65}

SpTableCodes == {Str_XYZ999}

\* extract_codes_from_storage, line 364: None or a non-empty stage -> code map
SpTables ==
    {NoTable} \cup
    UNION {[stages -> SpTableCodes] : stages \in (SUBSET SpStages) \ {{}}}

\* _try_storage, lines 134-135: the table's entry that the probe may fall back to
TableEntry(fast, table, step) ==
    IF fast /\ table # NoTable /\ step \in DOMAIN table THEN table[step] ELSE None

InitStorageProbe ==
    /\ ArbParked
    /\ RunParked
    /\ StoreParked
    /\ HappyParked
    /\ ValParked
    /\ ProbeParked
    /\ PlanParked
    /\ FillParked
    /\ ScanParked
    /\ SaversParked
    /\ storage_codes \in SpTables
    /\ use_fast_path = (storage_codes # NoTable)
    /\ local_storage \in [1..NumStages -> {None}]
    /\ sp_step = 1
    /\ sp_read = None
    /\ sp_result = None
    /\ sp_calls = 0
    /\ sp_table_at_start = storage_codes

sprobe_others ==
    <<arb_vars, run_vars, store_vars, happy_vars, val_vars, probe_vars, plan_vars,
      fill_vars, scan_vars, savers_vars>>

\* the page's own script sets or removes a stage's entry
PageWritesStorage(step, v) ==
    /\ local_storage[step] # v
    /\ local_storage' = [local_storage EXCEPT ![step] = v]
    /\ UNCHANGED <<storage_codes, use_fast_path, sp_step, sp_read, sp_result, sp_calls,
                   sp_table_at_start, sprobe_others>>

\* _try_storage, lines 127-136, called for step
TryStorage(step) ==
    /\ sp_calls < MaxStorageCalls
    /\ sp_calls' = sp_calls + 1
    /\ sp_step' = step
    /\ sp_read' = local_storage[step]
    /\ sp_result' = try_storage(local_storage[step],
                                TableEntry(use_fast_path, storage_codes, step))
    /\ UNCHANGED <<storage_codes, use_fast_path, local_storage, sp_table_at_start,
                   sprobe_others>>

StorageProbeNext ==
    \/ \E step \in SpStages, v \in SpRawValues : PageWritesStorage(step, v)
    \/ \E step \in SpStages : TryStorage(step)

SpecStorageProbe == InitStorageProbe /\ [][StorageProbeNext]_vars

-----------------------------------------------------------------------------
(* Specification SpecFill: agent/actions.py, one find_and_fill_code_input call,
   step by step, on every page of a small family.  A control is a button (its
   text content is its label) or an input of type submit (it shows its value
   attribute as label and has no text content).  Every page operation may
   raise; an operation followed by a wait may have taken effect before the
   wait raised. *)

MaxInputSelectors == 2      \* CODE_INPUT_SELECTORS, shortened
MaxControls == 2            \* submit controls on the page

Str_Submit_Code == <<"S","u","b","m","i","t"," ","C","o","d","e">>
Str_Proceed_label == <<"P","r","o","c","e","e","d">>
Str_Here == <<"H","e","r","e","!">>
Str_here_lower == <<"h","e","r","e","!">>

\* site.py 39-42, DECOY_BUTTON_PATTERN's alternatives
DecoyLabels ==
    {<<"H","e","r","e","!">>,
     <<"B","u","t","t","o","n","!">>,
     <<"T","r","y"," ","T","h","i","s","!">>,
     <<"C","l","i","c","k"," ","M","e","!">>,
     <<"C","o","n","t","i","n","u","e"," ","R","e","a","d","i","n","g">>,
     <<"L","i","n","k","!">>}

LowerDecoyLabels == {LowerStr(label) : label \in DecoyLabels}

\* DECOY_BUTTON_PATTERN.match(text): anchored at both ends, re.I
DECOY_BUTTON_PATTERN(text) == LowerStr(text) \in LowerDecoyLabels

\* Playwright's :has-text(needle): a substring match that ignores case
HasText(text, needle) ==
    \E i \in 1..(Len(text) - Len(needle) + 1) :
        LowerStr(SubSeq(text, i, i + Len(needle) - 1)) = LowerStr(needle)

\* SUBMIT_BUTTON_SELECTORS (site.py 19-37), one selector of each form:
\* button:has-text("Submit Code"), button:has-text("Proceed"), input[type="submit"]
SUBMIT_BUTTON_SELECTORS ==
    <<[tag |-> "button", needle |-> Str_Submit_Code],
      [tag |-> "button", needle |-> Str_Proceed_label],
      [tag |-> "input", needle |-> << >>]>>

FillLabels == {Str_Submit_Code, Str_Proceed_label, Str_Here, Str_here_lower}
FillControls == [tag : {"button", "input"}, label : FillLabels]

\* element.text_content()
text_content(control) == IF control.tag = "input" THEN << >> ELSE control.label

Matches(control, selector) ==
    /\ control.tag = selector.tag
    /\ selector.tag = "button" => HasText(text_content(control), selector.needle)

\* page.locator(selector).first: the position of the first matching control in
\* document order, 0 when count() is 0
RECURSIVE FirstMatch(_, _, _)
FirstMatch(controls, selector, i) ==
    IF i > Len(controls) THEN 0
    ELSE IF Matches(controls[i], selector) THEN i
    ELSE FirstMatch(controls, selector, i + 1)

\* lines 399-402: the section locator's button:has-text("Submit Code")
SectionButton ==
    IF f_section # None /\ HasText(f_section, Str_Submit_Code) THEN f_section ELSE None

InitFill ==
    /\ ArbParked
    /\ RunParked
    /\ StoreParked
    /\ HappyParked
    /\ ValParked
    /\ ProbeParked
    /\ PlanParked
    /\ StorageProbeParked
    /\ ScanParked
    /\ SaversParked
    /\ f_inputs \in [1..MaxInputSelectors -> BOOLEAN]
    /\ f_section \in {None, Str_Submit_Code, Str_Here}
    /\ f_controls \in UNION {[1..n -> FillControls] : n \in 0..MaxControls}
    /\ f_pc = "input"
    /\ f_sel = 1
    /\ f_btn = 1
    /\ f_ret = FALSE
    /\ f_filled = FALSE
    /\ f_entered = FALSE
    /\ f_clicked = {}

fill_others ==
    <<arb_vars, run_vars, store_vars, happy_vars, val_vars, probe_vars, plan_vars,
      sprobe_vars, scan_vars, savers_vars>>

fill_page == <<f_inputs, f_section, f_controls>>

\* line 388 and the except of lines 424-425: on to the next input selector, and
\* line 426 when there is none
NextInputSelector ==
    IF f_sel + 1 > MaxInputSelectors
    THEN f_pc' = "returned" /\ f_ret' = FALSE /\ f_sel' = f_sel
    ELSE f_pc' = "input" /\ f_sel' = f_sel + 1 /\ f_ret' = f_ret

\* lines 390-396: the input of selector f_sel is looked up and filled.  how:
\* "filled"; "raised" before fill(code) took effect; "raised_after" in the wait
\* of line 396
FillInput(how) ==
    /\ f_pc = "input"
    /\ IF ~f_inputs[f_sel]
       THEN /\ how = "filled"
            /\ NextInputSelector
            /\ UNCHANGED f_filled
       ELSE /\ f_filled' = (f_filled \/ how # "raised")
            /\ IF how = "filled"
               THEN f_pc' = "section" /\ UNCHANGED <<f_sel, f_ret>>
               ELSE NextInputSelector
    /\ UNCHANGED <<fill_page, f_btn, f_entered, f_clicked, fill_others>>

\* lines 398-408: the Submit Code button of the code-entry section.  how:
\* "clicked"; "raised" before the click took effect; "raised_after" in the wait
\* of line 405
SectionSubmit(how) ==
    /\ f_pc = "section"
    /\ IF SectionButton = None
       THEN /\ how \in {"clicked", "raised"}     \* count() is 0, or count() raised
            /\ f_pc' = "enter"
            /\ UNCHANGED <<f_ret, f_clicked>>
       ELSE /\ f_clicked' = IF how = "raised" THEN f_clicked
                            ELSE f_clicked \cup {[tag |-> "button", label |-> SectionButton]}
            /\ IF how = "clicked"
               THEN f_pc' = "returned" /\ f_ret' = TRUE
               ELSE f_pc' = "enter" /\ UNCHANGED f_ret
    /\ UNCHANGED <<fill_page, f_sel, f_btn, f_filled, f_entered, fill_others>>

\* lines 409-410.  how: "pressed"; "raised" before the key press took effect;
\* "raised_after" in the wait of line 410
PressEnter(how) ==
    /\ f_pc = "enter"
    /\ f_entered' = (f_entered \/ how # "raised")
    /\ IF how = "pressed"
       THEN f_pc' = "fallback" /\ f_btn' = 1 /\ UNCHANGED <<f_sel, f_ret>>
       ELSE NextInputSelector /\ UNCHANGED f_btn
    /\ UNCHANGED <<fill_page, f_filled, f_clicked, fill_others>>

\* line 412 and the except of lines 421-422: on to the next submit selector, and
\* line 423 when there is none
NextSubmitSelector ==
    IF f_btn + 1 > Len(SUBMIT_BUTTON_SELECTORS)
    THEN f_pc' = "returned" /\ f_ret' = TRUE /\ f_btn' = f_btn
    ELSE f_pc' = "fallback" /\ f_btn' = f_btn + 1 /\ f_ret' = f_ret

\* lines 413-422: the first control of submit selector f_btn.  how: "clicked";
\* "raised" before the click took effect; "raised_after" in the wait of line 419
FallbackButton(how) ==
    /\ f_pc = "fallback"
    /\ LET found == FirstMatch(f_controls, SUBMIT_BUTTON_SELECTORS[f_btn], 1)
           btn == f_controls[found]
       IN  IF found = 0
           THEN /\ how \in {"clicked", "raised"}
                /\ NextSubmitSelector
                /\ UNCHANGED f_clicked
           ELSE IF DECOY_BUTTON_PATTERN(Strip(text_content(btn)))
           THEN /\ how = "clicked"
                /\ NextSubmitSelector
                /\ UNCHANGED f_clicked
           ELSE /\ f_clicked' = IF how = "raised" THEN f_clicked
                                 ELSE f_clicked \cup {btn}
                /\ IF how = "clicked"
                   THEN f_pc' = "returned" /\ f_ret' = TRUE /\ UNCHANGED f_btn
                   ELSE NextSubmitSelector
    /\ UNCHANGED <<fill_page, f_sel, f_filled, f_entered, fill_others>>

FillOutcomes == {"filled", "raised", "raised_after"}
ClickOutcomes == {"clicked", "raised", "raised_after"}
PressOutcomes == {"pressed", "raised", "raised_after"}

FillNext ==
    \/ \E how \in FillOutcomes : FillInput(how)
    \/ \E how \in ClickOutcomes : SectionSubmit(how)
    \/ \E how \in PressOutcomes : PressEnter(how)
    \/ \E how \in ClickOutcomes : FallbackButton(how)

SpecFill == InitFill /\ [][FillNext]_vars

-----------------------------------------------------------------------------
(* Specification SpecScan: agent/extractors.py, _parse_json_for_codes on JSON
   values that nest containers one inside the other.  A level is a dict with
   one key or a list with one element; inside the last level sits the dict
   {"step_1": "ABC123"}.  scan passes down the path, a string made of "/" and
   the keys (or "[i]" for a list element). *)

MaxJsonDepth == 8
ScanPathLimit == 5

Str_key_plain == <<"d","a","t","a">>
Str_key_2 == <<"m","y","_","a","p","p","_","s","t","a","t","e">>
Str_index_0 == <<"[","0","]">>

JsonLevels ==
    {[kind |-> "dict", key |-> Str_key_plain],
     [kind |-> "dict", key |-> Str_key_2],
     [kind |-> "list", key |-> Str_index_0]}

\* path.count("_")
RECURSIVE CountUnderscores(_)
CountUnderscores(path) ==
    IF path = << >> THEN 0
    ELSE (IF Head(path) = "_" THEN 1 ELSE 0) + CountUnderscores(Tail(path))

\* Variant: the limit counts the path's separators
RECURSIVE scan_counting_levels(_, _, _)
scan_counting_levels(levels, i, path) ==
    IF i - 1 > ScanPathLimit
    THEN [deepest |-> i - 1, result |-> << >>]
    ELSE IF i > Len(levels)
    THEN [deepest |-> i, result |-> <<Str_ABC123>>]
    ELSE scan_counting_levels(levels, i + 1, path \o <<"/">> \o levels[i].key)

\* scan, lines 265-296, called with path on the container at nesting level i
\* (the root is level 1): deepest is the deepest level whose content was
\* examined, result the map collected (stage 1 -> the innermost code)
RECURSIVE scan(_, _, _)
scan(levels, i, path) ==
    IF CountUnderscores(path) > ScanPathLimit
    THEN [deepest |-> i - 1, result |-> << >>]
    ELSE IF i > Len(levels)
    THEN [deepest |-> i, result |-> <<Str_ABC123>>]
    ELSE scan(levels, i + 1, path \o <<"/">> \o levels[i].key)

InitScan ==
    /\ ArbParked
    /\ RunParked
    /\ StoreParked
    /\ HappyParked
    /\ ValParked
    /\ ProbeParked
    /\ PlanParked
    /\ StorageProbeParked
    /\ FillParked
    /\ SaversParked
    /\ j_levels \in UNION {[1..n -> JsonLevels] : n \in 0..MaxJsonDepth}
    /\ j_deepest = 0
    /\ j_result = << >>
    /\ j_done = FALSE

scan_others ==
    <<arb_vars, run_vars, store_vars, happy_vars, val_vars, probe_vars, plan_vars,
      sprobe_vars, fill_vars, savers_vars>>

\* _parse_json_for_codes, lines 298-305: scan(data) and the result it returns
ParseJsonForCodes ==
    /\ ~j_done
    /\ LET scanned == scan(j_levels, 1, << >>)
       IN  /\ j_deepest' = scanned.deepest
           /\ j_result' = scanned.result
    /\ j_done' = TRUE
    /\ UNCHANGED <<j_levels, scan_others>>

ScanNext == ParseJsonForCodes

SpecScan == InitScan /\ [][ScanNext]_vars

-----------------------------------------------------------------------------
(* Specification SpecSavers: agent/learning.py, save_learned's shared-store
   part (lines 61-77) run by two processes on the same shared directory, their
   steps interleaved.  Each run has recorded one successful stage. *)

SaverLedgers == {<<e>> : e \in {x \in StoreEntries : x.ok}}

InitSavers ==
    /\ ArbParked
    /\ RunParked
    /\ StoreParked
    /\ HappyParked
    /\ ValParked
    /\ ProbeParked
    /\ PlanParked
    /\ StorageProbeParked
    /\ FillParked
    /\ ScanParked
    /\ w_shared \in {Absent, Doc(SetKey(EmptyMap, str_int(7), "network"))}
    /\ w_pc = [p \in Savers |-> "shared_read"]
    /\ w_merged = [p \in Savers |-> EmptyMap]
    /\ w_ledger \in [Savers -> SaverLedgers]

savers_others ==
    <<arb_vars, run_vars, store_vars, happy_vars, val_vars, probe_vars, plan_vars,
      sprobe_vars, fill_vars, scan_vars>>

\* save_learned, lines 63-67, by run p: the shared file is read (the working
\* directory holds no learned.json) and this run's successes are added
SaverRead(p) ==
    /\ w_pc[p] = "shared_read"
    /\ w_merged' = [w_merged EXCEPT
                       ![p] = AddSuccesses(StrKeys(load_learned(w_shared, Absent)),
                                           w_ledger[p], 1)]
    /\ w_pc' = [w_pc EXCEPT ![p] = "shared_open"]
    /\ UNCHANGED <<w_shared, w_ledger, savers_others>>

\* save_learned, line 70, by run p: open(path, "w") truncates the shared file
SaverOpen(p) ==
    /\ w_pc[p] = "shared_open"
    /\ w_shared' = Partial
    /\ w_pc' = [w_pc EXCEPT ![p] = "shared_dump"]
    /\ UNCHANGED <<w_merged, w_ledger, savers_others>>

\* save_learned, lines 71-75, by run p: json.dump of its merged map and close
SaverDump(p) ==
    /\ w_pc[p] = "shared_dump"
    /\ w_shared' = Doc(w_merged[p])
    /\ w_pc' = [w_pc EXCEPT ![p] = "returned"]
    /\ UNCHANGED <<w_merged, w_ledger, savers_others>>

SaversNext ==
    \E p \in Savers : SaverRead(p) \/ SaverOpen(p) \/ SaverDump(p)

SpecSavers == InitSavers /\ [][SaversNext]_vars

-----------------------------------------------------------------------------
(* Specification SpecPlan: agent/llm_fallback.py, parse_action_plan and
   execute_action_plan on one reply of the planner.  A reply is what json.loads
   makes of it: no JSON at all, a JSON value that is no list, or a list of
   items; an item is a dict or some other value, and a dict's "action" is a
   string, missing (None) or a value that is no string (NotAString).  Each item
   carries its position in the proposal as its other field. *)

PlanLimit == 10
PlanShortLen == 3       \* lists of every kind of item up to this length
PlanOverrun == 2        \* lists of click and hover items up to PlanLimit + this length

NotAString == <<"<int>">>

Str_click == <<"c","l","i","c","k">>
Str_type == <<"t","y","p","e">>
Str_press == <<"p","r","e","s","s">>
Str_scroll == <<"s","c","r","o","l","l">>
Str_hover == <<"h","o","v","e","r">>

ALLOWED_ACTIONS == {Str_click, Str_type, Str_press, Str_scroll}

ItemKinds ==
    {[shape |-> "dict", action |-> Str_click],
     [shape |-> "dict", action |-> <<" ","T","y","p","e"," ">>],
     [shape |-> "dict", action |-> <<"P","R","E","S","S">>],
     [shape |-> "dict", action |-> Str_scroll],
     [shape |-> "dict", action |-> Str_hover],
     [shape |-> "dict", action |-> None],
     [shape |-> "dict", action |-> NotAString],
     [shape |-> "other", action |-> Str_click]}

LongKinds == {[shape |-> "dict", action |-> Str_click], [shape |-> "dict", action |-> Str_hover]}

PlanItems(kinds) ==
    [i \in 1..Len(kinds) |->
        [shape |-> kinds[i].shape, action |-> kinds[i].action, arg |-> i]]

PlanReplies ==
    {NoReply, [json |-> "object", items |-> << >>]}
    \cup {[json |-> "list", items |-> PlanItems(kinds)] :
             kinds \in UNION {[1..n -> ItemKinds] : n \in 0..PlanShortLen}}
    \cup {[json |-> "list", items |-> PlanItems(kinds)] :
             kinds \in UNION {[1..n -> LongKinds] :
                                 n \in (PlanLimit - 1)..(PlanLimit + PlanOverrun)}}

\* parse_action_plan, lines 103-110: the loop over the items from item i
RECURSIVE ScanItems(_, _, _)
ScanItems(items, i, out) ==
    IF i > Len(items) THEN [raised |-> FALSE, plan |-> out]
    ELSE LET item == items[i]
         IN  IF item.shape # "dict" THEN ScanItems(items, i + 1, out)
             ELSE IF item.action = NotAString
             THEN [raised |-> TRUE, plan |-> << >>]     \* .strip() of a non-string
             ELSE LET action == LowerStr(Strip(IF item.action = None THEN << >>
                                               ELSE item.action))
                  IN  IF action \notin ALLOWED_ACTIONS
                      THEN ScanItems(items, i + 1, out)
                      ELSE ScanItems(items, i + 1,
                                     Append(out, [action |-> action, arg |-> item.arg]))

\* Variant: the parsed plan is returned whole
parse_action_plan_unbounded(raw) ==
    IF raw.json # "list" THEN [raised |-> FALSE, plan |-> << >>]
    ELSE ScanItems(raw.items, 1, << >>)

\* parse_action_plan, lines 97-111
parse_action_plan(raw) ==
    IF raw.json # "list" THEN [raised |-> FALSE, plan |-> << >>]
    ELSE LET scanned == ScanItems(raw.items, 1, << >>)
             n == IF Len(scanned.plan) < PlanLimit THEN Len(scanned.plan) ELSE PlanLimit
         IN  [raised |-> scanned.raised, plan |-> SubSeq(scanned.plan, 1, n)]

InitPlan ==
    /\ ArbParked
    /\ RunParked
    /\ StoreParked
    /\ HappyParked
    /\ ValParked
    /\ ProbeParked
    /\ ExtParked
    /\ p_raw \in PlanReplies
    /\ p_plan = << >>
    /\ p_pc = "ask"
    /\ p_i = 1
    /\ p_log = << >>

plan_others == <<arb_vars, run_vars, store_vars, happy_vars, val_vars, probe_vars,
                 ext_vars>>

\* ask_llm_for_plan, line 170, and run_challenge, lines 527-535: the reply is
\* parsed; an exception goes to the except of line 544, an empty plan is not
\* executed
AskPlan ==
    /\ p_pc = "ask"
    /\ LET parsed == parse_action_plan(p_raw)
       IN  IF parsed.raised
           THEN p_pc' = "raised" /\ p_plan' = << >>
           ELSE /\ p_plan' = parsed.plan
                /\ p_pc' = IF parsed.plan = << >> THEN "done" ELSE "execute"
    /\ UNCHANGED <<p_raw, p_i, p_log, plan_others>>

\* execute_action_plan, lines 116-148: one item of the plan; raised tells whether
\* the page operation raised, after which line 147 goes on with the next item
\* as it does after an operation that succeeded
ExecuteItem(raised) ==
    /\ p_pc = "execute"
    /\ LET item == p_plan[p_i]
       IN  p_log' = IF item.action \in {Str_click, Str_type, Str_press, Str_scroll}
                    THEN Append(p_log, [action |-> item.action, arg |-> item.arg])
                    ELSE p_log
    /\ p_i' = p_i + 1
    /\ p_pc' = IF p_i + 1 > Len(p_plan) THEN "done" ELSE "execute"
    /\ UNCHANGED <<p_raw, p_plan, plan_others>>

PlanNext ==
    \/ AskPlan
    \/ \E raised \in BOOLEAN : ExecuteItem(raised)

SpecPlan == InitPlan /\ [][PlanNext]_vars

-----------------------------------------------------------------------------
(* Specification SpecValidator: is_valid_step_code on every string over a small
   alphabet up to a length, and on strings built from words, unit suffixes and
   padding *)

ValMaxLen == 6          \* longest string drawn over ValChars
ValChars == {"A", "s", "7", "%", " "}

Str_VRKT7A == <<"V","R","K","T","7","A">>
Str_15px == <<"1","5","p","x">>
Str_100ms == <<"1","0","0","m","s">>
Str_2_5s == <<"2",".","5","s">>
Str_42 == <<"4","2">>
Str_1500 == <<"1","5","0","0">>

ValStems == {<<"A","B","C","D">>, <<"A","B","C","D","E","F">>, <<"1","2","3","4","5">>}
ValEndings == {<< >>, <<"p","x">>, <<"P","X">>, <<"e","m">>, <<"r","e","m">>, <<"m","s">>,
               <<"M","s">>, <<"s">>, <<"S">>, <<"s","7">>, <<"S","7">>, <<"s","7","7">>,
               <<"%">>, <<"%","1">>, <<"%","1","2">>, <<"%","x">>, <<"x">>, <<"m">>}
ValWords == {Str_Proceed, <<"P","R","O","C","E","E","D">>, <<"p","r","o","c","e","e","d">>,
             <<"P","r","o","c","e","e","d","e","d">>, <<"C","o","n","t","i","n","u","e">>,
             <<"u","s","e","r","n","a","m","e">>, <<"N","e","w","s","l","e","t","t","e","r">>,
             <<"E","l","e","m","e","n","t","7">>, <<"W","i","n","d","o","w">>,
             <<"W","i","n","d","o","w","X">>, Str_VRKT7A, Str_15px, Str_100ms, Str_2_5s,
             Str_42, Str_1500, Str_123456}
ValPads == {<< >>, <<" ">>, <<"\t">>, <<"\n">>}

ValInputs ==
    UNION {[1..n -> ValChars] : n \in 0..ValMaxLen}
    \cup {l \o stem \o ending \o r :
             stem \in ValStems, ending \in ValEndings, l \in ValPads, r \in ValPads}
    \cup {l \o w \o r : w \in ValWords, l \in ValPads, r \in ValPads}

InitValidator ==
    /\ ArbParked
    /\ RunParked
    /\ StoreParked
    /\ HappyParked
    /\ ProbeParked
    /\ PlanParked
    /\ ExtParked
    /\ v_input \in ValInputs
    /\ v_result = FALSE
    /\ v_done = FALSE

Validate ==
    /\ ~v_done
    /\ v_result' = is_valid_step_code(v_input)
    /\ v_done' = TRUE
    /\ UNCHANGED <<v_input, arb_vars, run_vars, store_vars, happy_vars, probe_vars,
                   plan_vars, ext_vars>>

ValidatorNext == Validate

SpecValidator == InitValidator /\ [][ValidatorNext]_vars

-----------------------------------------------------------------------------
(* Specification SpecHappy: run_challenge against a site that behaves.  The page
   reports the stage it is on, storage holds the code of every stage (under the
   stage's own key or in the table of extract_codes_from_storage), the
   submission is dispatched, and the site moves on by one stage when the code it
   was given is the stage's, at some time before the polls run out.  After the
   last stage the page shows stage NumStages + 1 or no stage at all. *)

HappyCode(st) == IF st % 2 = 1 THEN Str_ABC123 ELSE Str_XYZ999

\* What run_step can read on stage st of such a site
HappyPages(st) ==
    {pg \in [storage : {None, HappyCode(st)}, table : {None, HappyCode(st)},
             network : Pool, input : {None}, scraped : Pool] :
        pg.storage # None \/ pg.table # None}

\* What get_current_step can return on such a site
HappyReads == IF hp_stage <= NumStages THEN {hp_stage} ELSE {hp_stage, NoStep}

InitHappy ==
    /\ ArbParked
    /\ RunInit
    /\ learned = [st \in 1..NumStages |-> NoMethod]
    /\ StoreParked
    /\ hp_stage = 1
    /\ ValParked
    /\ ProbeParked
    /\ PlanParked
    /\ ExtParked

HappyBegin == \E first \in HappyReads : BeginAttemptWithin(first, first, NumStages + 1)

\* run_step's result on every such reading, by stage and learned preference
HappyTable ==
    UNION {{<<st, lm, run_step(pg, NoAgain, lm, TRUE)>> :
               pg \in HappyPages(st), lm \in LearnedValues} : st \in 1..NumStages}

HappySolve ==
    \E entry \in HappyTable :
        /\ entry[1] = expected_step
        /\ RunStepCallWith(<<entry[2], entry[3]>>)

\* The site takes the submitted code and shows the next stage
PageAdvances ==
    /\ pc = "poll"
    /\ hp_stage = solved_step
    /\ sol.code_used = HappyCode(hp_stage)
    /\ hp_stage' = hp_stage + 1
    /\ UNCHANGED <<arb_vars, run_vars, store_vars, val_vars, probe_vars, plan_vars,
                   ext_vars>>

HappyPoll ==
    /\ poll + 1 < advance_poll_count \/ hp_stage # solved_step
    /\ \E s \in HappyReads : Poll(s)

HappyFinalRead == \E s \in HappyReads : FinalRead(s)

HappyNext ==
    \/ HappyBegin
    \/ LoopExit
    \/ HappySolve
    \/ PageAdvances
    \/ HappyPoll
    \/ HappyFinalRead

\* Every await of the loop returns and the site answers: no step is put off
\* for ever
SpecHappy == InitHappy /\ [][HappyNext]_vars /\ WF_vars(HappyNext)

-----------------------------------------------------------------------------
(* Claims about the stage loop (specification Spec) *)

Last(seq) == seq[Len(seq)]

\* The step appended one StepResult to the ledger
Appended == step_results' # step_results /\ Len(step_results') = Len(step_results) + 1

StallNote == "submit did not advance"

(* C2: every code run_step hands to find_and_fill_code_input passed
   is_valid_step_code, on every path (ordered walk, fallback scan, second
   extraction, local retries, the retry after the LLM fallback and the
   early-stage re-resolution). *)
C2_HandedCodesAreValid ==
    \A c \in handed : is_valid_step_code(c)

\* a code was handed over by the early-stage re-resolution's run_step
C2_Witness ==
    /\ re_resolutions = 1
    /\ dispatched = 2
    /\ pc = "retry_poll"
    /\ handed # {}

(* C3: when a poll after the submission for stage s reads a page stage
   r >= s + 1, polling stops at that read, a success StepResult for s is
   appended and the expected stage becomes exactly r. *)
C3_PollAdvance ==
    [][\A r \in PageReads :
          ((Poll(r) \/ RetryPoll(r)) /\ r # NoStep /\ r >= solved_step + 1)
          => /\ pc' = "top"
             /\ Appended
             /\ Last(step_results').step = solved_step
             /\ Last(step_results').ok
             /\ expected_step' = r
             /\ solved' = solved + 1]_vars

\* stage 5 was submitted, the polls before the last one did not advance and the
\* last one read 6
C3_Witness ==
    /\ pc = "top"
    /\ outcome = [kind |-> "advanced", polls |-> advance_poll_count]
    /\ Last(step_results).step = 5
    /\ Last(step_results).ok
    /\ expected_step = 6

(* C4: when a submitted stage in 1..5 is stalled (the page still reports it
   after the polls ran out), one re-resolution (a further solve_one_step call)
   is made before any failed StepResult of the attempt is recorded, and never
   a second one in the same attempt. *)
C4_OneReResolution ==
    [][/\ re_resolutions' <= 1
       /\ \A r \in PageReads :
             (FinalRead(r) /\ r = solved_step /\ solved_step \in 1..5)
             => /\ step_results' = step_results
                /\ pc' = "solve"
                /\ site' = "retry"
                /\ re_resolutions = 0
                /\ re_resolutions' = 1
       /\ (Appended /\ ~Last(step_results').ok /\ Last(step_results').notes = StallNote
              /\ Last(step_results').step \in 1..5)
          => (re_resolutions = 1 /\ re_resolutions' = 1)]_vars

\* a stalled early stage failed after its one re-resolution submitted again
C4_Witness ==
    /\ outcome.kind = "stalled"
    /\ Last(step_results).step \in 1..5
    /\ ~Last(step_results).ok
    /\ re_resolutions = 1
    /\ dispatched = 2

(* C5: when a submitted stage above 5 is stalled, no re-resolution and no
   further submission is made in that attempt: a failed StepResult with note
   "submit did not advance" is appended at once and the continue-on-error
   policy is applied. *)
C5_LateStageFailsAtOnce ==
    [][/\ \A r \in PageReads :
             (FinalRead(r) /\ r = solved_step /\ solved_step > 5)
             => /\ Appended
                /\ Last(step_results').step = solved_step
                /\ ~Last(step_results').ok
                /\ Last(step_results').notes = StallNote
                /\ re_resolutions' = 0
                /\ dispatched' = dispatched
                /\ IF continue_on_error
                   THEN pc' = "top" /\ expected_step' = solved_step + 1
                   ELSE pc' = "done"
       /\ (Appended /\ ~Last(step_results').ok /\ Last(step_results').notes = StallNote
              /\ Last(step_results').step > 5)
          => (re_resolutions' = 0 /\ dispatched' = 1)]_vars

C5_Witness ==
    /\ outcome.kind = "stalled"
    /\ Last(step_results).step > 5
    /\ Last(step_results).notes = StallNote
    /\ re_resolutions = 0
    /\ dispatched = 1
    /\ continue_on_error
    /\ pc = "top"

(* C6: when the polls after a submission for stage s run out without an
   advance and the page's stage is then unavailable, a success StepResult for
   s is recorded, solved_count grows by one and the expected stage by one. *)
C6_AmbiguousIsSuccess ==
    [][\A r \in PageReads :
          ((FinalRead(r) \/ RetryFinalRead(r)) /\ r = NoStep)
          => /\ Appended
             /\ Last(step_results').step = solved_step
             /\ Last(step_results').ok
             /\ solved' = solved + 1
             /\ expected_step' = expected_step + 1]_vars

(* C7: at the top of every stage attempt, with expected stage e and page stage
   p: p > e gives e := p; e - p >= 3 gives e := p; a lag below 3 or no page
   stage leaves e unchanged (e = 10, p = 2 gives 2; e = 10, p = 9 gives 10). *)
C7_Claimed(e, p) ==
    IF p = NoStep THEN e
    ELSE IF p > e THEN p
    ELSE IF e - p >= 3 THEN p
    ELSE e

C7_ResyncEveryAttempt ==
    [][/\ (attempted' = attempted + 1)
          => expected_step' = C7_Claimed(expected_step, page_step')
       /\ Resync(10, 2) = 2
       /\ Resync(10, 9) = 10]_vars

\* the second attempt began with the page back on stage 1 after stage 1 had been
\* solved with the page at least three stages further on
C7_Witness ==
    /\ pc = "solve"
    /\ attempted = 2
    /\ page_step = 1
    /\ expected_step = 1
    /\ solved = 1
    /\ step_results[1].step = 1

(* C8: every stage attempt ends by appending exactly one StepResult, so that
   attempted_count equals the ledger length whenever the loop is between
   attempts and at run end. *)
C8_OneResultPerAttempt ==
    pc \in {"top", "done"} => attempted = Len(step_results)

(* C9: the ledger holds at most one StepResult per stage number, for every
   sequence of page-reported stages. *)
C9_OneResultPerStage ==
    \A i \in 1..Len(step_results), j \in 1..Len(step_results) :
        i # j => step_results[i].step # step_results[j].step

(* C10: the stage loop ends after a bounded number of stage attempts for every
   behaviour of the page and cannot cycle among stages.  Finite form: every
   stage attempt is made for a stage above the previous attempt's, which
   bounds the attempts by the number of stages. *)
C10_AttemptsClimb ==
    [][(attempted' = attempted + 1 /\ attempted >= 1)
          => expected_step' > attempt_stage]_vars

Failed(ledger) == {i \in 1..Len(ledger) : ~ledger[i].ok}

(* C11: when a stage attempt ends in a recorded failure, with
   continue_on_error = false the loop stops at once, so the failed StepResult
   is the last ledger entry and the only failed one; with continue_on_error =
   true the expected stage becomes the failed stage + 1 and the loop goes on
   with its next test. *)
C11_FailurePolicy ==
    [][/\ (Appended /\ ~Last(step_results').ok)
          => IF continue_on_error
             THEN pc' = "top" /\ expected_step' = Last(step_results').step + 1
             ELSE pc' = "done"
       /\ (pc = "done") => (step_results' = step_results)
       /\ ~continue_on_error
          => /\ Cardinality(Failed(step_results')) <= 1
             /\ Failed(step_results') \subseteq {Len(step_results')}]_vars

\* the run aborted on a failure recorded after an earlier success
C11_Witness ==
    /\ ~continue_on_error
    /\ pc = "done"
    /\ Len(step_results) = 2
    /\ step_results[1].ok
    /\ ~step_results[2].ok

(* C17: a fault raised by a single page operation (evaluate, click, fill, key
   press, wait) of a probe, of the UI normalizer, of the ready-state wait or of
   the submission step during the stage loop becomes an empty result at the
   component boundary and never leaves the stage loop. *)
C17_FaultsStayInside ==
    [][\A fault_site \in FaultSites :
          (PageFault(fault_site)
             /\ fault_site.component \in {"probe", "normalizer", "ready_wait", "submission"})
          => pc' # "raised"]_vars

(* C18: in any run ask_llm_for_plan is invoked at most max_llm_calls times,
   whatever it returns (empty plans and errors included). *)
C18_PlannerCallsBounded ==
    llm_invocations <= max_llm_calls

(* C20: every StepResult in the ledger, success or failure, carries one of the
   three extraction sources localStorage, network, dom, also for stages
   resolved after the LLM fallback. *)
C20_ResultSourceIsExtractionSource ==
    \A i \in 1..Len(step_results) : step_results[i].method \in Sources

\* the successful results of a stage in a ledger
C26_SuccessesOf(ledger, stage) ==
    {i \in 1..Len(ledger) : ledger[i].ok /\ ledger[i].step = stage}

(* C26: the in-memory learned preference follows the run's successes: when a
   stage that was already recorded as solved via source X in this run is
   resolved again (after a reset snapped the expected stage back), run_step is
   given a preference whose try-order starts with X. *)
C26_LearnedFollowsSuccesses ==
    pc = "solve" =>
        LET stage == IF site = "retry" THEN solved_step ELSE expected_step
            succ == C26_SuccessesOf(step_results, stage)
        IN  succ # {} =>
               LET latest == CHOOSE i \in succ : \A j \in succ : j <= i
               IN  TryOrder(LearnedGet(stage))[1] = step_results[latest].method

(* C27: in every state of the run solved equals the number of success
   StepResults in the ledger and solved <= attempted; attempted grows by
   exactly one when a stage attempt begins and at no other step, and solved
   grows by at most one in a stage attempt: only by one at a time, and only in
   the step that ends the attempt. *)
C27_TalliesMatchLedger ==
    [][/\ solved' = Cardinality({i \in 1..Len(step_results') : step_results'[i].ok})
       /\ solved' <= attempted'
       /\ attempted' \in {attempted, attempted + 1}
       /\ (attempted' = attempted + 1) <=> (pc = "top" /\ pc' = "solve")
       /\ solved' \in {solved, solved + 1}
       /\ (solved' = solved + 1) => (pc # "top" /\ pc' = "top")]_vars

\* two attempts were made and one success recorded: the second attempt's
\* re-resolution ended without any StepResult
C27_Witness ==
    /\ pc = "top"
    /\ attempted = 2
    /\ solved = 1
    /\ Len(step_results) = 1
    /\ outcome.kind = "unrecorded"

\* the code a failing solve_one_step returns after a last run_step result r: the
\* code r found, else the one found by the attempts before it
C29_LatestFound(r) == IF r.code_used # None THEN r.code_used ELSE last_code

(* C29: one solve_one_step call invokes run_step at most max_retries times; an
   attempt that dispatched a submission ends the call with success and no further
   attempt; a failed attempt that is not the max_retries-th is followed by
   another attempt and reports nothing; the max_retries-th failed attempt in a
   row ends the call with failure, and the failure carries the code of the
   latest attempt that found one. *)
C29_BoundedRetries ==
    [][\A entry \in RunStepTable :
         RunStepCallWith(entry) =>
           LET r == entry[2]
           IN  /\ attempt < max_retries_per_step
               /\ r.ok =>
                     /\ pc' \in {"poll", "retry_poll"}
                     /\ attempt' = 0
                     /\ step_results' = step_results
                     /\ pc' = "poll" => sol'.ok /\ sol'.code_used = r.code_used
                     /\ pc' = "retry_poll"
                        => sol_retry'.ok /\ sol_retry'.code_used = r.code_used
               /\ (~r.ok /\ attempt + 1 < max_retries_per_step) =>
                     /\ pc' = "solve"
                     /\ site' = site
                     /\ attempt' = attempt + 1
                     /\ step_results' = step_results
                     /\ sol' = sol /\ sol_retry' = sol_retry
               /\ (~r.ok /\ attempt + 1 = max_retries_per_step) =>
                     /\ pc' # "solve"
                     /\ pc' = "llm"
                        => ~sol'.ok /\ sol'.code_used = C29_LatestFound(r)
                     /\ (pc' # "llm" /\ site # "retry") =>
                          /\ Len(step_results') = Len(step_results) + 1
                          /\ ~Last(step_results').ok
                          /\ Last(step_results').code_redacted
                               = IF Truthy(C29_LatestFound(r))
                                 THEN redact_code(C29_LatestFound(r)) ELSE None]_vars

\* a solve_one_step call failed after max_retries attempts of which the last
\* found no code, and returned the code an earlier attempt had found
C29_Witness ==
    /\ pc = "llm"
    /\ ~sol.ok
    /\ sol.notes = "no code found"
    /\ sol.code_used # None

\* a step that appends a success StepResult
C30_SuccessAppended ==
    /\ Len(step_results') = Len(step_results) + 1
    /\ Last(step_results').ok

(* C30: a success StepResult for a stage is appended only by a read of the
   page's stage made after a submission for that stage was dispatched; the step
   in which the Submission Controller returns true (a run_step call that
   returned ok) never appends a StepResult. *)
C30_SuccessOnlyAfterRead ==
    [][/\ C30_SuccessAppended =>
            /\ dispatched >= 1
            /\ pc \in {"poll", "final", "retry_poll", "retry_final"}
            /\ Last(step_results').step = solved_step
            /\ \E s \in PageReads :
                  Poll(s) \/ FinalRead(s) \/ RetryPoll(s) \/ RetryFinalRead(s)
       /\ \A entry \in RunStepTable :
             (RunStepCallWith(entry) /\ entry[2].ok) => step_results' = step_results]_vars

\* a success was recorded on the first poll after a dispatched submission
C30_Witness ==
    /\ pc = "top"
    /\ outcome = [kind |-> "advanced", polls |-> 1]
    /\ dispatched = 1
    /\ Last(step_results).ok

(* C34: a success StepResult for stage s is appended only when the read of the
   page's stage that led to it gave a stage of at least s + 1 or no stage; a
   read of a stage below s never yields a success for s, after the first
   submission's polls or after the early-stage re-resolution. *)
C34_NoSuccessOnRegression ==
    [][\A r \in PageReads :
          ((Poll(r) \/ FinalRead(r) \/ RetryPoll(r) \/ RetryFinalRead(r))
             /\ Appended /\ Last(step_results').ok)
          => (r = NoStep \/ r >= solved_step + 1)]_vars

(* C35: the expected stage decreases only in the resync at the top of a stage
   attempt, to a page stage at least 3 behind it; every other step of the run
   loop leaves it unchanged or raises it. *)
C35_ExpectedStageMonotone ==
    [][expected_step' < expected_step
          => /\ pc = "top"
             /\ attempted' = attempted + 1
             /\ page_step' = expected_step'
             /\ expected_step - expected_step' >= RegressionGap]_vars

(* C36: whatever stage numbers the page text reports, the stage a stage attempt
   is made for and the stage of every StepResult lie in 1..30 (here
   1..NumStages), and the expected stage stays in 1..31 (1..NumStages + 1). *)
C36_StagesInRange ==
    /\ expected_step \in 1..(NumStages + 1)
    /\ attempted > 0 => attempt_stage \in 1..NumStages
    /\ \A i \in 1..Len(step_results) : step_results[i].step \in 1..NumStages

(* C38: in one stage attempt at most two submissions are dispatched when the
   stage is in 1..5 and at most one when it is in 6..30 (here 6..NumStages),
   over the local retries, the retry after the LLM fallback and the early-stage
   re-resolution together. *)
C38_SubmissionsPerAttempt ==
    /\ attempt_stage \in 1..EarlyWindow => dispatched <= 2
    /\ attempt_stage \in (EarlyWindow + 1)..NumStages => dispatched <= 1

\* an early stage was submitted by the retry after the LLM fallback, stalled,
\* and was submitted a second time by the re-resolution
C38_Witness ==
    /\ pc = "retry_poll"
    /\ attempt_stage \in 1..EarlyWindow
    /\ dispatched = 2
    /\ llm_calls_used = 1
    /\ sol.method = "llm"

-----------------------------------------------------------------------------
(* Claims about the network cache and the probes (specification SpecProbes) *)

(* C23: once the response listener is installed the network cache never loses a
   key: a stage that has an entry in some state has one in every later state of
   the run. *)
C23_CacheKeysOnlyGrow ==
    [][(nc_pc = "installed") => (DOMAIN network_cache \subseteq DOMAIN network_cache')]_vars

\* a later response gave stage 1 another code and stage 2 its first one, after
\* a network read had seen stage 1's earlier code
C23_Witness ==
    /\ nc_pc = "installed"
    /\ rs_calls >= 1
    /\ DOMAIN rs_codes = {1}
    /\ DOMAIN network_cache = {1, 2}
    /\ network_cache[1] # rs_codes[1]

(* C24: the response listener is the only writer of the network cache: every
   step that changes the cache is the listener's, and the steps of run_step
   and of the network probe leave it as it was, the probe reading a copy that
   equals the cache, whatever the listener did in between. *)
C24_ListenerIsSoleWriter ==
    [][/\ (network_cache' # network_cache)
          => \E mapping \in ProbeMappings : OnResponse(mapping)
       /\ (rs_pc' # rs_pc) => (network_cache' = network_cache)
       /\ NetworkRead => (rs_codes' = network_cache /\ network_cache' = network_cache)]_vars

\* the network read returned an entry that the listener wrote while run_step
\* was waiting for its probes, and the cache still holds it
C24_Witness ==
    /\ rs_calls >= 1
    /\ rs_pc = "idle"
    /\ network_result # None
    /\ Lookup(rs_cache_at_launch, rs_step) = None
    /\ Lookup(network_cache, rs_step) = network_result

(* C25: in run_step the storage and dom probes are launched concurrently and
   the network probe's cache read takes place in between, after both are
   launched and without waiting for either to complete, so that its result is
   what the cache held when the probes were launched. *)
C25_NetworkReadInBetween ==
    /\ rs_pc \in {"await_storage", "await_dom", "read_network"}
       => (t_storage # "none" /\ t_dom # "none")
    /\ (rs_calls >= 1 /\ rs_pc = "idle")
       => /\ rs_done_at_read = {}
          /\ network_result = Lookup(rs_cache_at_launch, rs_step)

-----------------------------------------------------------------------------
(* Claims about the storage probe (specification SpecStorageProbe) *)

\* the stage-keyed entry is present: it has a trimmed length of 4..64
C31_EntryPresent(raw) ==
    /\ raw # None
    /\ Len(Strip(raw)) >= 4
    /\ Len(Strip(raw)) <= 64

(* C31: the storage probe returns the stage-keyed storage entry (trimmed) when
   it is present with a trimmed length of 4..64; when it is not, and the table
   built at run start exists and contains the stage, it returns the table's
   entry; otherwise it returns no candidate.  The table is the one built at run
   start in every state. *)
C31_StorageProbe ==
    /\ storage_codes = sp_table_at_start
    /\ sp_calls > 0 =>
          sp_result =
            IF C31_EntryPresent(sp_read) THEN Strip(sp_read)
            ELSE IF storage_codes # NoTable /\ sp_step \in DOMAIN storage_codes
            THEN storage_codes[sp_step]
            ELSE None

\* the probe fell back to the table for a stage whose entry exists but is too
\* short once trimmed
C31_Witness ==
    /\ sp_calls > 0
    /\ sp_read = Str_blank_padded
    /\ storage_codes # NoTable
    /\ sp_step \in DOMAIN storage_codes
    /\ sp_result = storage_codes[sp_step]

-----------------------------------------------------------------------------
(* Claims about the Submission Controller (specification SpecFill) *)

\* no clicked control shows a label that is exactly a decoy label
C32_NoDecoyClicked ==
    \A control \in f_clicked : control.label \notin DecoyLabels

\* a call that returned false filled no input or dispatched no submit action
C32_FalseMeansNotSubmitted ==
    (f_pc = "returned" /\ ~f_ret) => ~(f_filled /\ (f_entered \/ f_clicked # {}))

(* C32: find_and_fill_code_input never clicks a submit control whose visible
   text is exactly a decoy label, in the code-entry section or in the global
   fallback list; and when it returns false, no input was filled and
   submitted. *)
C32_DecoysSkipped == C32_NoDecoyClicked /\ C32_FalseMeansNotSubmitted

-----------------------------------------------------------------------------
(* Claims about the stage-table scan (specification SpecScan) *)

\* the number of nesting levels the scan is meant to stop at: a container is
\* examined when at most ScanPathLimit containers enclose it
C33_DepthBound == ScanPathLimit + 1

(* C33: for every JSON structure, whatever its key names, the scan examines no
   value nested deeper than a fixed number of levels. *)
C33_BoundedDepth ==
    j_done => j_deepest <= C33_DepthBound

-----------------------------------------------------------------------------
(* Claims about concurrent saves (specification SpecSavers) *)

(* C37: when two runs sharing one shared store have both finished
   save_learned, whatever the interleaving of their reads and writes, the
   shared file holds the successful stages of both runs. *)
C37_NoLostUpdate ==
    (\A p \in Savers : w_pc[p] = "returned")
    => /\ w_shared.kind = "doc"
       /\ \A p \in Savers : \A i \in 1..Len(w_ledger[p]) :
             w_ledger[p][i].ok
             => str_int(w_ledger[p][i].step) \in DOMAIN w_shared.method_per_step

-----------------------------------------------------------------------------
(* Claims about the planner's proposal (specification SpecPlan) *)

\* the kind an item asks for: its action without surrounding blanks, in lower case
C28_Kind(item) ==
    IF item.action = None \/ item.action = NotAString THEN << >>
    ELSE LowerStr(Strip(item.action))

\* the items of a reply that are dicts of an allowed kind, in the reply's order
C28_Kept(raw) ==
    IF raw.json # "list" THEN << >>
    ELSE SelectSeq(raw.items,
                   LAMBDA item : item.shape = "dict" /\ C28_Kind(item) \in ALLOWED_ACTIONS)

(* C28: every action executed from a proposal has a kind of the allow-list
   {click, type, press, scroll}; items of another kind or shape are never
   executed; the executed actions are the proposal's allowed items in the
   proposal's order; at most 10 are executed per proposal. *)
C28_OnlyAllowedActionsRun ==
    LET kept == C28_Kept(p_raw)
    IN  /\ Len(p_log) <= PlanLimit
        /\ Len(p_log) <= Len(kept)
        /\ \A i \in 1..Len(p_log) :
              /\ p_log[i].action \in ALLOWED_ACTIONS
              /\ p_log[i].arg = kept[i].arg
              /\ p_log[i].action = C28_Kind(kept[i])
        /\ p_pc = "done"
           => Len(p_log) = IF Len(kept) < PlanLimit THEN Len(kept) ELSE PlanLimit
        /\ p_pc = "raised" => p_log = << >>

\* a proposal of more than 10 allowed items, with items of another kind before
\* them, was executed up to the tenth allowed item
C28_Witness ==
    /\ p_pc = "done"
    /\ Len(C28_Kept(p_raw)) > PlanLimit
    /\ p_raw.items[1].action = Str_hover
    /\ Len(p_log) = PlanLimit
    /\ p_log[1].arg = 2

-----------------------------------------------------------------------------
(* Claims about the validator (specification SpecValidator) *)

C22_UnitSuffixes ==
    {<<"p","x">>, <<"e","m">>, <<"r","e","m">>, <<"m","s">>, <<"s">>}
    \cup {<<"s", d>> : d \in Digits}

\* c ends in a unit-like suffix, whatever the case of its letters: px, em, rem,
\* ms, s with at most one digit after it, or % with any number of digits after it
C22_EndsInUnit(c) ==
    LET l == LowerStr(c)
        n == Len(c)
    IN  \/ \E u \in C22_UnitSuffixes : EndsWith(l, u)
        \/ \E k \in 0..(n - 1) :
              /\ l[n - k] = "%"
              /\ \A i \in (n - k + 1)..n : l[i] \in Digits

C22_AllDigits(c) == Len(c) >= 2 /\ \A i \in 1..Len(c) : c[i] \in Digits

C22_LowerVocabulary == {LowerStr(w) : w \in DecoyVocabulary}

C22_DecoyWord(c) == LowerStr(c) \in C22_LowerVocabulary

\* the four classes of the claim, the last three read on the string t
C22_Classes(c, t) ==
    \/ Len(Strip(c)) < 6
    \/ C22_AllDigits(t)
    \/ C22_EndsInUnit(t)
    \/ C22_DecoyWord(t)

C22_Examples ==
    /\ is_valid_step_code(Str_VRKT7A)
    /\ ~is_valid_step_code(Str_Proceed)
    /\ ~is_valid_step_code(Str_15px)
    /\ ~is_valid_step_code(Str_100ms)
    /\ ~is_valid_step_code(Str_2_5s)
    /\ ~is_valid_step_code(Str_42)
    /\ ~is_valid_step_code(Str_1500)

(* C22 as stated: is_valid_step_code(c) is false for every string whose trimmed
   length is below 6, for every all-digit string of length >= 2, for every
   string ending in a unit-like suffix and for every string that is a decoy word
   in any case, and true for every other non-empty string. *)
C22_ValidatorClasses ==
    v_done =>
        /\ C22_Classes(v_input, v_input) => ~v_result
        /\ (v_input # << >> /\ ~C22_Classes(v_input, v_input)) => v_result
        /\ C22_Examples

(* C22 amended: the all-digit, unit-suffix and decoy-word tests are made on the
   trimmed string: is_valid_step_code(c) is false when c, trimmed, is shorter
   than 6, all digits, ends in a unit-like suffix or is a decoy word in any
   case, and true for every other string. *)
C22_ValidatorClassesTrimmed ==
    v_done =>
        /\ C22_Classes(v_input, v_input) => ~v_result
        /\ v_result <=> ~C22_Classes(v_input, Strip(v_input))
        /\ C22_Examples

\* a padded word that is no decoy and ends in no unit was accepted
C22_Witness ==
    /\ v_done
    /\ v_result
    /\ v_input # Strip(v_input)
    /\ Strip(v_input) = <<"W","i","n","d","o","w","X">>

-----------------------------------------------------------------------------
(* Claims about the end-to-end scenario (specification SpecHappy) *)

C21_AllSolvedByStorage ==
    /\ pc = "done"
    /\ solved = NumStages
    /\ attempted = NumStages
    /\ Len(step_results) = NumStages
    /\ \A i \in 1..NumStages :
          /\ step_results[i].step = i
          /\ step_results[i].ok
          /\ step_results[i].method = "localStorage"

(* C21: with no learned preferences, a page that reports its stage and moves on
   by exactly one stage on each correct submission, and storage holding a valid
   code for every stage, the run terminates with solved = attempted = the
   number of stages and a ledger of one success StepResult per stage, in
   increasing order, each with the storage source. *)
C21_HappyRunCompletes == <>C21_AllSolvedByStorage

\* the run is over; the last stage's success was inferred from a page that shows
\* no stage any more
C21_Witness ==
    /\ C21_AllSolvedByStorage
    /\ outcome.kind = "inferred"
    /\ hp_stage = NumStages + 1

-----------------------------------------------------------------------------
(* Claims about the learning store (specification SpecStore) *)

\* indices of the successful results of a ledger, and the key strings of their stages
Successes(ledger) == {i \in 1..Len(ledger) : ledger[i].ok}
SuccessKeys(ledger) == {str_int(ledger[i].step) : i \in Successes(ledger)}

(* C12: save_learned merges into the shared file as a union keyed by stage:
   every stage present in the shared file before a save is present after it,
   with its old source unless this run succeeded on that stage, and this run's
   successful stages are added. *)
C12_SharedMergeKeepsStages ==
    [][(st_pc = "shared_dump" /\ st_pc' = "returned")
          => LET before == st_shared_before.method_per_step
                 after == st_shared'.method_per_step
             IN  /\ st_shared'.kind = "doc"
                 /\ \A k \in DOMAIN before :
                       /\ k \in DOMAIN after
                       /\ (k \notin SuccessKeys(st_ledger)) => after[k] = before[k]
                 /\ SuccessKeys(st_ledger) \subseteq DOMAIN after]_vars

\* the valid entries of a file, by stage number
C13_Entries(file) ==
    LET m == file.method_per_step
        kept == {k \in DOMAIN m : m[k] \in Sources /\ IsIntKey(k)}
    IN  [n \in {int_str(k) : k \in kept} |-> m[CHOOSE k \in kept : int_str(k) = n]]

(* C13: load_learned merges the shared file and the run folder's file: the
   returned map holds every valid stage entry of either file, the run folder's
   entry overriding the shared one for a stage present in both. *)
C13_LoadMergesBothFiles ==
    [][(st_pc # "loop" /\ st_pc' = "loop")
          => LET sh == C13_Entries(st_shared)
                 lo == C13_Entries(st_local')
             IN  st_learned' = [n \in DOMAIN sh \cup DOMAIN lo |->
                                   IF n \in DOMAIN lo THEN lo[n] ELSE sh[n]]]_vars

(* C14: after save_learned the run folder's method_per_step holds exactly the
   stages with a successful StepResult in this run, each with the source of the
   last such result in ledger order; a run without a successful StepResult
   leaves the run folder's file and the shared file as they were. *)
C14_LocalFileIsThisRunsSuccesses ==
    [][(st_pc \in SavePositions /\ st_pc' = "returned")
          => IF Successes(st_ledger) = {}
             THEN st_pc = "save_begin" /\ st_local' = st_local /\ st_shared' = st_shared
             ELSE /\ st_local'.kind = "doc"
                  /\ DOMAIN st_local'.method_per_step = SuccessKeys(st_ledger)
                  /\ \A i \in Successes(st_ledger) :
                        (\A j \in Successes(st_ledger) :
                            st_ledger[j].step = st_ledger[i].step => j <= i)
                        => st_local'.method_per_step[str_int(st_ledger[i].step)]
                              = st_ledger[i].method]_vars

\* a run that solved stage 3 twice, by network and then by dom, has saved
C14_Witness ==
    /\ st_pc = "returned"
    /\ Len(st_ledger) = 2
    /\ st_ledger[1].step = 3 /\ st_ledger[1].ok /\ st_ledger[1].method = "network"
    /\ st_ledger[2].step = 3 /\ st_ledger[2].ok /\ st_ledger[2].method = "dom"
    /\ st_local = Doc(SetKey(EmptyMap, str_int(3), "dom"))

(* C15: when a run is ended early by an exception or by the whole-run timeout
   after some stages were solved, the learning store has been written with the
   StepResults of that time when the fault reaches the caller. *)
C15_PartialResultsPersisted ==
    (st_pc = "propagated" /\ Successes(st_ledger) # {})
    => /\ st_local.kind = "doc"
       /\ \A i \in Successes(st_ledger) :
             str_int(st_ledger[i].step) \in DOMAIN st_local.method_per_step

(* C16: learning store writes are atomic per file: when save_learned is
   interrupted at any point, the run folder's file and the shared file each
   hold a complete document (the previous or the new one), never a partly
   written one. *)
C16_WritesAreAtomic ==
    st_pc = "killed" => (st_local.kind # "partial" /\ st_shared.kind # "partial")

====
